---- MODULE Spec2Model ----
(***************************************************************************)
(* Two-way synchronisation between a lead sheet (Google Sheets) and a task *)
(* board (Trello): SyncEngine.run_sync and the two flows it runs, the      *)
(* LeadClient / TaskClient operations they call, the retry decorator and   *)
(* normalize_status.                                                       *)
(*                                                                         *)
(* Python strings are sequences of one-character strings, so that strip,   *)
(* lower, upper and replace are computed and not assumed.                  *)
(***************************************************************************)
EXTENDS Integers, Sequences, FiniteSets, TLC

\* ------------------------------------------------------------------ bounds

\* Data rows of the sheet (row 1 is the header).
MaxRows == 2

\* Invocations of run_sync on the same engine.
MaxRuns == 2

\* Transport calls that fail (after their retries) in one behaviour.
MaxFaults == 2

\* Length of the arbitrary strings given to normalize_status.
MaxLen == 3

\* ------------------------------------------------------------------ strings

UpperAZ == <<"A", "B", "C", "D", "E", "F", "G", "H", "I", "J", "K", "L", "M",
             "N", "O", "P", "Q", "R", "S", "T", "U", "V", "W", "X", "Y", "Z">>

LowerAZ == <<"a", "b", "c", "d", "e", "f", "g", "h", "i", "j", "k", "l", "m",
             "n", "o", "p", "q", "r", "s", "t", "u", "v", "w", "x", "y", "z">>

Whitespace == {" ", "\t", "\n"}

\* str.lower and str.upper on one character, as tables.
LowerOf ==
    [c \in {UpperAZ[i] : i \in DOMAIN UpperAZ} |->
        LowerAZ[CHOOSE i \in DOMAIN UpperAZ : UpperAZ[i] = c]]

UpperOf ==
    [c \in {LowerAZ[i] : i \in DOMAIN LowerAZ} |->
        UpperAZ[CHOOSE i \in DOMAIN LowerAZ : LowerAZ[i] = c]]

LowerChar(c) == IF c \in DOMAIN LowerOf THEN LowerOf[c] ELSE c

UpperChar(c) == IF c \in DOMAIN UpperOf THEN UpperOf[c] ELSE c

RECURSIVE MapChars(_, _, _)
\* which = "lower" | "upper" | "under" (replace(' ', '_').replace('-', '_'))
MapChars(s, which, acc) ==
    IF s = <<>> THEN acc
    ELSE LET c == Head(s)
             d == CASE which = "lower" -> LowerChar(c)
                    [] which = "upper" -> UpperChar(c)
                    [] OTHER -> IF c \in {" ", "-"} THEN "_" ELSE c
         IN  MapChars(Tail(s), which, Append(acc, d))

Lower(s) == MapChars(s, "lower", <<>>)

Upper(s) == MapChars(s, "upper", <<>>)

RECURSIVE LStrip(_)
LStrip(s) ==
    IF s # <<>> /\ Head(s) \in Whitespace THEN LStrip(Tail(s)) ELSE s

RECURSIVE RStrip(_)
RStrip(s) ==
    IF s # <<>> /\ s[Len(s)] \in Whitespace
    THEN RStrip(SubSeq(s, 1, Len(s) - 1))
    ELSE s

Strip(s) == RStrip(LStrip(s))

\* ------------------------------------------------------------------ statuses

st_new == <<"n", "e", "w">>

st_contacted == <<"c", "o", "n", "t", "a", "c", "t", "e", "d">>

st_qualified == <<"q", "u", "a", "l", "i", "f", "i", "e", "d">>

st_lost == <<"l", "o", "s", "t">>

Canonical == {st_new, st_contacted, st_qualified, st_lost}

\* status_map of normalize_status, in the order of the dict literal.
status_map ==
    << <<st_new, st_new>>,
       << <<"t", "o", "d", "o">>, st_new>>,
       << <<"p", "e", "n", "d", "i", "n", "g">>, st_new>>,
       <<st_contacted, st_contacted>>,
       << <<"i", "n", "_", "p", "r", "o", "g", "r", "e", "s", "s">>, st_contacted>>,
       << <<"i", "n", "p", "r", "o", "g", "r", "e", "s", "s">>, st_contacted>>,
       << <<"w", "o", "r", "k", "i", "n", "g">>, st_contacted>>,
       << <<"a", "c", "t", "i", "v", "e">>, st_contacted>>,
       << <<"r", "e", "a", "c", "h", "_", "o", "u", "t">>, st_contacted>>,
       <<st_qualified, st_qualified>>,
       << <<"d", "o", "n", "e">>, st_qualified>>,
       << <<"c", "o", "m", "p", "l", "e", "t", "e">>, st_qualified>>,
       << <<"c", "o", "m", "p", "l", "e", "t", "e", "d">>, st_qualified>>,
       << <<"f", "i", "n", "i", "s", "h", "e", "d">>, st_qualified>>,
       << <<"w", "o", "n">>, st_qualified>>,
       << <<"s", "u", "c", "c", "e", "s", "s">>, st_qualified>>,
       <<st_lost, st_lost>>,
       << <<"r", "e", "j", "e", "c", "t", "e", "d">>, st_lost>>,
       << <<"c", "a", "n", "c", "e", "l", "l", "e", "d">>, st_lost>>,
       << <<"c", "l", "o", "s", "e", "d", "_", "l", "o", "s", "t">>, st_lost>>,
       << <<"d", "e", "a", "d">>, st_lost>> >>

\* dict.get(key, default) on a dict given as a sequence of <<key, value>>.
DictGet(d, key, default) ==
    LET hits == {i \in DOMAIN d : d[i][1] = key}
    IN  IF hits = {} THEN default ELSE d[CHOOSE i \in hits : TRUE][2]

\* None, where a string is expected.
PyNone == <<"<None>">>

\* not status
falsy(status) == status = <<>> \/ status = PyNone

\* status.lower().strip().replace(' ', '_').replace('-', '_')
status_key_dropping_first(status) ==
    MapChars(Strip(Lower(Tail(status))), "under", <<>>)

\* status.strip().replace(' ', '_').replace('-', '_'), without lower().
status_key_case_sensitive(status) == MapChars(Strip(status), "under", <<>>)

status_key(status) == MapChars(Strip(Lower(status)), "under", <<>>)

normalize_status_no_default(status) ==
    IF falsy(status) THEN st_new
    ELSE DictGet(status_map, status_key(status), status_key(status))

normalize_status(status) ==
    IF falsy(status) THEN st_new
    ELSE DictGet(status_map, status_key(status), st_new)

\* ------------------------------------------------------------------ retry

max_retries == 3

base_delay == 1

backoff_factor == 2

\* Status codes that retry_with_backoff re-raises at once.
TerminalAuthOnly == {401, 403}

Terminal == {400, 401, 403}

\* What one invocation of the wrapped function does: it returns, or raises an
\* exception that carries a status code, or one that carries none (None).
\* status_code = None is written 0.
NoStatus == 0

Returns == [raised |-> FALSE, status_code |-> NoStatus]

Raises(code) == [raised |-> TRUE, status_code |-> code]

Attempts == {Returns, Raises(401), Raises(500), Raises(NoStatus)}

RECURSIVE Pow(_, _)
Pow(b, k) == IF k = 0 THEN 1 ELSE b * Pow(b, k - 1)

\* delay = base_delay * (backoff_factor ** attempt)
delay_linear(attempt) == base_delay * (attempt + 1)

delay(attempt) == base_delay * Pow(backoff_factor, attempt)

RECURSIVE RetryFrom(_, _, _)
\* The loop of wrapper(): attempt is the loop variable, outcomes[attempt + 1]
\* is what the wrapped function does at that attempt.
RetryFrom(outcomes, attempt, sleeps) ==
    LET o == outcomes[attempt + 1]
    IN  IF ~o.raised
        THEN [ok |-> TRUE, invocations |-> attempt + 1, sleeps |-> sleeps]
        ELSE IF o.status_code \in Terminal
        THEN [ok |-> FALSE, invocations |-> attempt + 1, sleeps |-> sleeps]
        ELSE IF attempt = max_retries
        THEN [ok |-> FALSE, invocations |-> attempt + 1, sleeps |-> sleeps]
        ELSE RetryFrom(outcomes, attempt + 1,
                       Append(sleeps, delay(attempt)))

retry_with_backoff(outcomes) == RetryFrom(outcomes, 0, <<>>)

\* Every behaviour of the wrapped function over the attempts the loop can make.
AttemptPatterns == [1..(max_retries + 1) -> Attempts]

\* Whether a retry-wrapped call returns (TRUE) or raises (FALSE).
WrappedOk == {retry_with_backoff(p).ok : p \in AttemptPatterns}

\* ------------------------------------------------------------------ configuration

\* os.getenv of a variable that is not set.
NoneValue == "<None>"

\* `value is None` in the place of `not value`.
not_value_none_only(value) == value = NoneValue

\* `not value` for a value of the environment.
not_value(value) == value \in {NoneValue, ""}

\* required_vars of Config.validate, by name.
required_vars ==
    <<"SHEET_ID", "TRELLO_KEY", "TRELLO_TOKEN", "TRELLO_BOARD_ID",
      "TRELLO_LIST_TODO_ID", "TRELLO_LIST_IN_PROGRESS_ID", "TRELLO_LIST_DONE_ID",
      "TRELLO_LIST_LOST_ID">>

\* The paths at which os.path.exists finds a file.
ExistingFiles == {"./service-account.json"}

\* Config.validate: what it raises, or that it returns True.
validate(cfg) ==
    LET missing_vars == {i \in DOMAIN required_vars : not_value(cfg[required_vars[i]])}
    IN  IF missing_vars # {} THEN "ValueError"
        ELSE IF cfg.GOOGLE_CREDS_PATH \notin ExistingFiles THEN "FileNotFoundError"
        ELSE "True"

\* A configuration with every value set and four different lists.
ValidConfig ==
    [SHEET_ID |-> "sheet", TRELLO_KEY |-> "key", TRELLO_TOKEN |-> "token",
     TRELLO_BOARD_ID |-> "board",
     TRELLO_LIST_TODO_ID |-> "TRELLO_LIST_TODO_ID",
     TRELLO_LIST_IN_PROGRESS_ID |-> "TRELLO_LIST_IN_PROGRESS_ID",
     TRELLO_LIST_DONE_ID |-> "TRELLO_LIST_DONE_ID",
     TRELLO_LIST_LOST_ID |-> "TRELLO_LIST_LOST_ID",
     GOOGLE_CREDS_PATH |-> "./service-account.json"]

\* ------------------------------------------------------------------ task board

\* A card is [id, name, desc, idList]; None is written as the card with no id.
NoneCard == [id |-> <<>>, name |-> <<>>, desc |-> <<>>, idList |-> ""]

\* idList of a card dict that has no 'idList' key: card['idList'] raises KeyError.
NoKey == "<KeyError>"

\* TaskClient.__init__: self.list_ids, in the order of the dict literal, built
\* from the four list IDs of the configuration.
TaskClient_list_ids(cfg) ==
    << <<st_new, cfg.TRELLO_LIST_TODO_ID>>,
       <<st_contacted, cfg.TRELLO_LIST_IN_PROGRESS_ID>>,
       <<st_qualified, cfg.TRELLO_LIST_DONE_ID>>,
       <<st_lost, cfg.TRELLO_LIST_LOST_ID>> >>

\* The list_ids of the TaskClient the engine holds: the configuration names
\* four different lists.
list_ids == TaskClient_list_ids(ValidConfig)

\* A list of the board that is none of the four configured ones.
OtherList == "OTHER_LIST_ID"

\* The loop of get_status_from_list_id over self.list_ids.items(): the first
\* status whose list ID is list_id.
first_status_of(ids, list_id) ==
    LET hits == {i \in DOMAIN ids : ids[i][2] = list_id}
    IN  IF hits = {} THEN st_new
        ELSE ids[CHOOSE i \in hits : \A j \in hits : i <= j][1]

get_status_from_list_id(list_id) == first_status_of(list_ids, list_id)

RECURSIVE Join(_, _)
\* sep.join(parts)
Join(parts, sep) ==
    IF parts = <<>> THEN <<>>
    ELSE IF Len(parts) = 1 THEN parts[1]
    ELSE parts[1] \o sep \o Join(Tail(parts), sep)

\* The literals of format_card_description are single tokens; the three emoji
\* are written by their names.
format_card_description(email, source, lead_id) ==
    LET p1 == IF lead_id # <<>>
              THEN << <<"lead_id: ">> \o lead_id, <<":id: Lead ID: ">> \o lead_id >>
              ELSE <<>>
        p2 == IF email # <<>> THEN << <<":e-mail: Email: ">> \o email >> ELSE <<>>
        p3 == IF source # <<>> THEN << <<":pushpin: Source: ">> \o source >> ELSE <<>>
        desc_parts == p1 \o p2 \o p3
    IN  IF desc_parts # <<>> THEN Join(desc_parts, <<"\n">>)
        ELSE <<"No information available">>

\* The ID the board gives to the n-th card it creates.
CardId(n) == <<"c">> \o [i \in 1..n |-> "1"]

\* POST /cards, on success: the board with the new card, which is returned.
create_card_replacing(bd, name, description, status, newId) ==
    <<[id |-> newId, name |-> name, desc |-> description,
       idList |-> DictGet(list_ids, Lower(status), DictGet(list_ids, st_new, ""))]>>

\* POST /cards with idList always the list of new.
create_card_in_todo(bd, name, description, status, newId) ==
    Append(bd, [id |-> newId, name |-> name, desc |-> description,
                idList |-> DictGet(list_ids, st_new, "")])

create_card(bd, name, description, status, newId) ==
    LET list_id == DictGet(list_ids, Lower(status), DictGet(list_ids, st_new, ""))
    IN  Append(bd, [id |-> newId, name |-> name, desc |-> description,
                    idList |-> list_id])

\* GET /cards/{id}, on success or 404: the card, or None.
get_card(bd, card_id) ==
    IF \E i \in DOMAIN bd : bd[i].id = card_id
    THEN bd[CHOOSE i \in DOMAIN bd : bd[i].id = card_id]
    ELSE NoneCard

\* The keyword arguments that are not None are the domain of fields.
update_card(bd, card_id, fields) ==
    LET list_id == IF "status" \in DOMAIN fields
                   THEN DictGet(list_ids, Lower(fields["status"]), "")
                   ELSE ""
        upd(c) == [id |-> c.id,
                   name |-> IF "name" \in DOMAIN fields THEN fields["name"] ELSE c.name,
                   desc |-> IF "description" \in DOMAIN fields
                            THEN fields["description"] ELSE c.desc,
                   idList |-> IF list_id # "" THEN list_id ELSE c.idList]
    IN  [i \in DOMAIN bd |-> IF bd[i].id = card_id THEN upd(bd[i]) ELSE bd[i]]

\* ------------------------------------------------------------------ lead sheet

Columns == {"id", "name", "email", "status", "source", "trello_task_id"}

\* The rows of the sheet as lead dicts; data rows start at row 2.
read_leads(sh) ==
    [i \in DOMAIN sh |->
        [row_number |-> i + 1, id |-> sh[i].id, name |-> sh[i].name,
         email |-> sh[i].email, status |-> sh[i].status, source |-> sh[i].source,
         trello_task_id |-> sh[i].trello_task_id]]

\* Writes columns A..F of one row from lead_data.
update_lead_clearing_source(sh, row_number, lead_data) ==
    [sh EXCEPT ![row_number - 1] =
        [k \in Columns |-> IF k = "source" THEN <<>> ELSE lead_data[k]]]

update_lead(sh, row_number, lead_data) ==
    [sh EXCEPT ![row_number - 1] = [k \in Columns |-> lead_data[k]]]

\* read is whether read_leads returns, write whether update_lead does; both are
\* retry-wrapped and every exception is caught here and turned into False.
update_lead_by_row(sh, row_index, updates, read, write) ==
    IF ~read THEN [sheet |-> sh, ret |-> FALSE]
    ELSE LET leads_now == read_leads(sh)
             found == {i \in DOMAIN leads_now : leads_now[i].row_number = row_index}
         IN  IF found = {} THEN [sheet |-> sh, ret |-> FALSE]
             ELSE LET current_lead == leads_now[CHOOSE i \in found : TRUE]
                      merged == [k \in DOMAIN current_lead |->
                                   IF k \in DOMAIN updates THEN updates[k]
                                   ELSE current_lead[k]]
                  IN  IF ~write THEN [sheet |-> sh, ret |-> FALSE]
                      ELSE [sheet |-> update_lead(sh, row_index, merged),
                            ret |-> TRUE]

\* ------------------------------------------------------------------ engine

ZeroStats ==
    [leads_created |-> 0, leads_updated |-> 0, tasks_created |-> 0,
     tasks_updated |-> 0, status_synced_to_sheets |-> 0, errors |-> 0,
     skipped |-> 0]

\* self.sync_stats[counter] += 2
Inc_by_two(st, counter) == [st EXCEPT ![counter] = @ + 2]

\* self.sync_stats[counter] += 1
Inc(st, counter) == [st EXCEPT ![counter] = @ + 1]

\* run_sync: self.sync_stats = {...: 0} at the start of the run.
reset_stats_kept(st) == st

reset_stats(st) == ZeroStats

\* The outcome of each retry-wrapped call a processing step can make. A call
\* that fails is the last call of its step (the exception ends the step, or
\* ends update_lead_by_row, which is the step's last call), so the outcomes of
\* the calls after a failed one are never looked at.
Net ==
    {n \in [create : WrappedOk, get : WrappedOk, update : WrappedOk,
            read : WrappedOk, write : WrappedOk] :
        Cardinality({k \in {"create", "get", "update", "read", "write"} : ~n[k]}) <= 1}

NoFields == [k \in {} |-> <<>>]

\* One call made by the engine, as recorded in the log of the run.
\* res: "ok", "none" (get_card returned None), "false" (update_lead_by_row
\* returned False) or "raise".
Call(op, row, card, fields, res) ==
    [op |-> op, row |-> row, card |-> card, fields |-> fields, res |-> res]

\* TaskClient.create_task_for_lead followed by the write of the card ID, as
\* both branches of _process_lead_to_task that create a card do it.
\* counts_failure: the branch has the else that counts a falsy card_id.
CreateAndLink(lead, bd, sh, st, newId, net, branch, counter, counts_failure, before) ==
    LET description == format_card_description(lead.email, lead.source, lead.id)
        status == normalize_status(lead.status)
        created == Call("create_task_for_lead", lead.row_number, newId,
                        [name |-> lead.name, description |-> description,
                         status |-> status], "ok")
        card_id == newId
        updates == [trello_task_id |-> card_id]
        w == update_lead_by_row(sh, lead.row_number, updates, net.read, net.write)
    IN  IF ~net.create
        THEN [board |-> bd, sheet |-> sh, stats |-> st, raised |-> TRUE,
              branch |-> branch, created |-> FALSE,
              calls |-> before \o <<Call("create_task_for_lead", lead.row_number,
                                         <<>>, NoFields, "raise")>>]
        ELSE IF card_id # <<>>
        THEN [board |-> create_card(bd, lead.name, description, status, newId),
              sheet |-> w.sheet, stats |-> Inc(st, counter),
              raised |-> FALSE, branch |-> branch, created |-> TRUE,
              calls |-> before \o
                        <<created,
                          Call("update_lead_by_row", lead.row_number, card_id,
                               updates, IF w.ret THEN "ok" ELSE "false")>>]
        ELSE [board |-> create_card(bd, lead.name, description, status, newId),
              sheet |-> sh,
              stats |-> IF counts_failure THEN Inc(st, "errors") ELSE st,
              raised |-> FALSE, branch |-> branch, created |-> TRUE,
              calls |-> before \o <<created>>]

\* The counter the branch "card was deleted in Trello" increments.
replacement_counter_updated == "tasks_updated"

replacement_counter == "tasks_created"

\* The counter a lead without a name increments.
skip_counter_errors == "errors"

skip_counter == "skipped"

\* update_fields gets a key for every field of the card that was sent.
fields_to_send_all(changed) == {"name", "description", "status"}

\* update_fields gets a key for each field that differs, and no other.
fields_to_send(changed) == changed

\* SyncEngine._process_lead_to_task: the stores and statistics it leaves, and
\* whether it raised.
process_lead_to_task(lead, bd, sh, st, newId, net) ==
    LET lead_id == Strip(lead.id)
        name == Strip(lead.name)
        email == Strip(lead.email)
        source == Strip(lead.source)
        status == normalize_status(lead.status)
        trello_task_id == Strip(lead.trello_task_id)
        row_number == lead.row_number
        card == get_card(bd, trello_task_id)
        got == Call("get_card", row_number, trello_task_id, NoFields,
                    IF card = NoneCard THEN "none" ELSE "ok")
        expected_desc == format_card_description(email, source, lead_id)
        changed == {k \in {"name", "description", "status"} :
                      CASE k = "name" -> card.name # name
                        [] k = "description" -> card.desc # expected_desc
                        [] OTHER ->
                             get_status_from_list_id(card.idList) # status}
        update_fields == [k \in fields_to_send(changed) |->
                            CASE k = "name" -> name
                              [] k = "description" -> expected_desc
                              [] OTHER -> status]
        same(branch, raised, calls) ==
            [board |-> bd, sheet |-> sh, stats |-> st, raised |-> raised,
             branch |-> branch, created |-> FALSE, calls |-> calls]
    IN  IF name = <<>>
        THEN [same("skip", FALSE, <<>>) EXCEPT !.stats = Inc(st, skip_counter)]
        ELSE IF trello_task_id = <<>>
        THEN CreateAndLink(lead, bd, sh, st, newId, net, "create", "tasks_created",
                           TRUE, <<>>)
        ELSE IF ~net.get
        THEN same("lookup", TRUE,
                  <<Call("get_card", row_number, trello_task_id, NoFields, "raise")>>)
        ELSE IF card # NoneCard
        THEN IF card.idList = NoKey
             THEN same("keyerror", TRUE, <<got>>)
             ELSE IF changed # {}
             THEN IF ~net.update
                  THEN same("update", TRUE,
                            <<got, Call("update_task", row_number, trello_task_id,
                                        update_fields, "raise")>>)
                  ELSE [board |-> update_card(bd, trello_task_id, update_fields),
                        sheet |-> sh, stats |-> Inc(st, "tasks_updated"),
                        raised |-> FALSE, branch |-> "update", created |-> FALSE,
                        calls |-> <<got, Call("update_task", row_number,
                                              trello_task_id, update_fields, "ok")>>]
             ELSE same("in_sync", FALSE, <<got>>)
        ELSE CreateAndLink(lead, bd, sh, st, newId, net, "replace", replacement_counter,
                           FALSE, <<got>>)

\* lead_map that keeps, for each trello_task_id, the first lead that carries it.
BuildLeadMap_first(leads_read) ==
    LET keyed == {i \in DOMAIN leads_read : Strip(leads_read[i].trello_task_id) # <<>>}
        keys == {Strip(leads_read[i].trello_task_id) : i \in keyed}
    IN  [t \in keys |->
            leads_read[CHOOSE i \in keyed :
                          /\ Strip(leads_read[i].trello_task_id) = t
                          /\ \A j \in keyed :
                                Strip(leads_read[j].trello_task_id) = t => i <= j]]

\* lead_map of _sync_tasks_to_leads: for each non-empty trello_task_id the last
\* lead of the list that carries it.
BuildLeadMap(leads_read) ==
    LET keyed == {i \in DOMAIN leads_read : Strip(leads_read[i].trello_task_id) # <<>>}
        keys == {Strip(leads_read[i].trello_task_id) : i \in keyed}
    IN  [t \in keys |->
            leads_read[CHOOSE i \in keyed :
                          /\ Strip(leads_read[i].trello_task_id) = t
                          /\ \A j \in keyed :
                                Strip(leads_read[j].trello_task_id) = t => j <= i]]

\* The status _process_task_to_lead writes to the sheet for a card status.
pushed_status_as_is(card_status) == card_status

pushed_status(card_status) == Upper(card_status)

\* The comparison of _process_task_to_lead that decides on a write.
status_differs_always(card_status, sheet_status) == TRUE

status_differs(card_status, sheet_status) == card_status # sheet_status

\* SyncEngine._process_task_to_lead.
process_task_to_lead(card, map, sh, st, net) ==
    LET card_id == card.id
        lead == map[card_id]
        row_number == lead.row_number
        card_status == get_status_from_list_id(card.idList)
        sheet_status == normalize_status(lead.status)
        updates == [status |-> pushed_status(card_status)]
        w == update_lead_by_row(sh, row_number, updates, net.read, net.write)
        same(branch, raised) ==
            [sheet |-> sh, stats |-> st, raised |-> raised, branch |-> branch,
             calls |-> <<>>]
    IN  IF card_id \notin DOMAIN map
        THEN [same("unlinked", FALSE) EXCEPT !.stats = Inc(st, "skipped")]
        ELSE IF card.idList = NoKey
        THEN same("keyerror", TRUE)
        ELSE IF status_differs(card_status, sheet_status)
        THEN [sheet |-> w.sheet, stats |-> Inc(st, "status_synced_to_sheets"),
              raised |-> FALSE, branch |-> "push",
              calls |-> <<Call("update_lead_by_row", row_number, card_id, updates,
                               IF w.ret THEN "ok" ELSE "false")>>]
        ELSE same("in_sync", FALSE)

\* The except clause around each lead of _sync_leads_to_tasks.
per_record_handler_silent(st, raised) == st

per_record_handler(st, raised) == IF raised THEN Inc(st, "errors") ELSE st

\* The except clause around each card of _sync_tasks_to_leads.
per_task_handler_silent(st, raised) == st

per_task_handler(st, raised) == IF raised THEN Inc(st, "errors") ELSE st

\* The except clause of run_sync, reached by an exception that left a flow.
run_level_handler_twice(st) == Inc(Inc(st, "errors"), "errors")

run_level_handler(st) == Inc(st, "errors")

\* The except clause of a flow logs and re-raises.
flow_level_swallows == FALSE

flow_level_reraises == TRUE

\* The flows in the order run_sync calls them: B is task -> lead
\* (_sync_tasks_to_leads), A is lead -> task (_sync_leads_to_tasks).
run_order_A_first == <<"A", "B">>

run_order == <<"B", "A">>

\* ------------------------------------------------------------------ state

VARIABLES
    sheet,      \* the data rows of the sheet, row i + 1 at index i
    board,      \* the cards of the board, in the order the board returns them
    stats,      \* SyncEngine.sync_stats
    pc,         \* where run_sync is
    run,        \* run_sync invocations started so far
    cards,      \* _sync_tasks_to_leads: the cards it fetched
    lead_map,   \* _sync_tasks_to_leads: trello_task_id -> lead
    bi,         \* _sync_tasks_to_leads: position in cards
    leads,      \* _sync_leads_to_tasks: the leads it fetched
    ai,         \* _sync_leads_to_tasks: position in leads
    log,        \* history: what the current run did, in order
    made,       \* history: for the n-th card the engine created: row, run, branch
    start,      \* history: the sheet and the board when the current run began
    faults,     \* environment: transport calls that have failed so far
    w_func,     \* one call of a client operation: the operation
    w_outcomes, \* what its body does at each invocation
    w_attempt,  \* the loop variable of wrapper()
    w_calls,    \* invocations of the body so far
    w_sleeps,   \* the delays slept so far
    w_result,   \* "idle", "running", "returned", "raised" or "false"
    w_error,    \* the error raised to the caller
    n_status,   \* the argument of a call of normalize_status
    n_once,     \* what normalize_status returned for it
    n_twice,    \* what normalize_status returned for that result
    n_pc,       \* "idle", "input", "once" or "twice"
    config,     \* the class attributes of Config, as read from the environment
    c_pc,       \* "idle", "loaded", "validated", "rejected", "constructed" or "looked_up"
    c_list_id,  \* the argument of a call of get_status_from_list_id
    c_status,   \* what it returned
    m_args,     \* main: the parsed command line
    m_pc,       \* main: where it is
    m_exit,     \* main: the exit code of the process
    m_report,   \* main: whether the sync report has been printed
    m_net       \* main: calls made to the external stores while constructing the engine

\* The variables of one call of a client operation.
wrapper_vars == <<w_func, w_outcomes, w_attempt, w_calls, w_sleeps, w_result, w_error>>

\* The variables of one call of normalize_status.
normalize_vars == <<n_status, n_once, n_twice, n_pc>>

\* The variables of one TaskClient built from one configuration.
config_vars == <<config, c_pc, c_list_id, c_status>>

\* The variables of one execution of main.
main_vars == <<m_args, m_pc, m_exit, m_report, m_net>>

vars ==
    <<sheet, board, stats, pc, run, cards, lead_map, bi, leads, ai, log, made,
      start, faults, wrapper_vars, normalize_vars, config_vars, main_vars>>

NoMap == [t \in {} |-> <<>>]

\* One entry of the log. kind: "fetch" (branch says of what), "item" (one card
\* of flow B or one lead of flow A) or "escape" (an exception left a flow).
Ev(flow, kind, row, card, branch, calls, raised, before, after) ==
    [flow |-> flow, kind |-> kind, row |-> row, card |-> card, branch |-> branch,
     calls |-> calls, raised |-> raised, before |-> before, after |-> after]

\* ------------------------------------------------------------------ inputs

NewLead ==
    [id |-> <<"L", "1">>, name |-> <<"A", "n", "n">>, email |-> <<"a", "@", "x">>,
     status |-> <<"N", "E", "W">>, source |-> <<>>, trello_task_id |-> <<>>]

PaddedLead ==
    [id |-> <<"L", "2">>, name |-> <<" ", "B", "o">>, email |-> <<>>,
     status |-> <<"i", "n", " ", "p", "r", "o", "g", "r", "e", "s", "s">>,
     source |-> <<"w", "e", "b">>, trello_task_id |-> <<>>]

BlankRow ==
    [id |-> <<>>, name |-> <<>>, email |-> <<>>, status |-> <<>>,
     source |-> <<>>, trello_task_id |-> <<>>]

LinkedLead ==
    [id |-> <<"L", "3">>, name |-> <<"C", "y">>, email |-> <<>>,
     status |-> <<"Q", "u", "a", "l", "i", "f", "i", "e", "d">>,
     source |-> <<>>, trello_task_id |-> <<"c", "0">>]

RowChoices == {NewLead, PaddedLead, BlankRow, LinkedLead}

\* A card that was on the board before the first run, in list l.
ExistingCard(l) ==
    [id |-> <<"c", "0">>, name |-> <<"C", "y">>,
     desc |-> format_card_description(<<>>, <<>>, <<"L", "3">>), idList |-> l]

InitSheets == UNION {[1..n -> RowChoices] : n \in 0..MaxRows}

InitBoards ==
    {<<>>} \cup {<<ExistingCard(l)>> :
                   l \in {"TRELLO_LIST_DONE_ID", "TRELLO_LIST_LOST_ID", OtherList, NoKey}}

\* No error has been raised to the caller.
NoError == [attempt |-> 0, status_code |-> NoStatus]

\* No client operation is being followed.
WrapperIdle ==
    /\ w_func = ""
    /\ w_outcomes = <<>>
    /\ w_attempt = 0
    /\ w_calls = 0
    /\ w_sleeps = <<>>
    /\ w_result = "idle"
    /\ w_error = NoError

\* normalize_status is not being followed.
NormalizeIdle ==
    /\ n_status = <<>>
    /\ n_once = <<>>
    /\ n_twice = <<>>
    /\ n_pc = "idle"

\* No configuration is being looked at: the engine's TaskClient was built from
\* ValidConfig.
ConfigIdle ==
    /\ config = ValidConfig
    /\ c_pc = "idle"
    /\ c_list_id = ""
    /\ c_status = <<>>

\* The process has not exited.
NoExit == -1

\* main is not running: the engine is driven by another caller.
MainIdle ==
    /\ m_args = [direction |-> "both", dry_run |-> FALSE]
    /\ m_pc = "idle"
    /\ m_exit = NoExit
    /\ m_report = FALSE
    /\ m_net = 0

Init ==
    /\ sheet \in InitSheets
    /\ board \in InitBoards
    /\ stats = ZeroStats
    /\ pc = "idle"
    /\ run = 0
    /\ cards = <<>>
    /\ lead_map = NoMap
    /\ bi = 0
    /\ leads = <<>>
    /\ ai = 0
    /\ log = <<>>
    /\ made = <<>>
    /\ start = [sheet |-> sheet, board |-> board]
    /\ faults = 0
    /\ WrapperIdle
    /\ NormalizeIdle
    /\ ConfigIdle
    /\ MainIdle

\* ------------------------------------------------------------------ run_sync

\* The number of calls of a step that failed: "false" is update_lead_by_row
\* returning False, which here only a failed transport call causes.
Failed(calls) == Cardinality({i \in DOMAIN calls : calls[i].res \in {"raise", "false"}})

AllOk == [create |-> TRUE, get |-> TRUE, update |-> TRUE, read |-> TRUE,
          write |-> TRUE]

\* The outcomes the environment may still choose for the calls of a step.
NetLeft == IF faults < MaxFaults THEN Net ELSE {AllOk}

Start(flow) == IF flow = "B" THEN "B_cards" ELSE "A_leads"

\* Where control goes when a flow returns: to the next statement of run_sync,
\* or back to main when main called the flow itself.
After(flow) ==
    IF m_pc = "flow" THEN "returned"
    ELSE IF flow = run_order[1] THEN Start(run_order[2]) ELSE "returned"

Locals0 == cards' = <<>> /\ lead_map' = NoMap /\ bi' = 0 /\ leads' = <<>> /\ ai' = 0

\* An exception leaves a flow: the flow's handler re-raises it and the handler
\* of run_sync counts it; run_sync returns. When main called the flow itself
\* there is no run_sync around it and the exception reaches main.
Escape(flow, what) ==
    /\ faults < MaxFaults
    /\ faults' = faults + 1
    /\ IF m_pc = "flow"
       THEN /\ stats' = stats
            /\ log' = log \o
                 <<Ev(flow, "fetch", 0, <<>>, what, <<>>, TRUE, stats, stats),
                   Ev(flow, "escape", 0, <<>>, what, <<>>, TRUE, stats, stats)>>
            /\ pc' = "raised"
       ELSE IF flow_level_reraises
       THEN /\ stats' = run_level_handler(stats)
            /\ log' = log \o
                 <<Ev(flow, "fetch", 0, <<>>, what, <<>>, TRUE, stats, stats),
                   Ev(flow, "escape", 0, <<>>, what, <<>>, TRUE, stats, stats')>>
            /\ pc' = "returned"
       ELSE /\ stats' = stats
            /\ log' = Append(log, Ev(flow, "fetch", 0, <<>>, what, <<>>, TRUE,
                                     stats, stats))
            /\ pc' = After(flow)
    /\ Locals0
    /\ UNCHANGED <<sheet, board, run, made, start, wrapper_vars, normalize_vars, config_vars, main_vars>>

Fetched(flow, what) ==
    log' = Append(log, Ev(flow, "fetch", 0, <<>>, what, <<>>, FALSE, stats, stats))

\* run_sync is entered: the statistics are reset and the first flow is called.
run_sync_enters ==
    /\ pc = "idle"
    /\ run < MaxRuns
    /\ run' = run + 1
    /\ stats' = reset_stats(stats)
    /\ log' = <<>>
    /\ start' = [sheet |-> sheet, board |-> board]
    /\ pc' = Start(run_order[1])
    /\ UNCHANGED <<sheet, board, cards, lead_map, bi, leads, ai, made, faults>>

RunSync ==
    /\ run_sync_enters
    /\ UNCHANGED <<wrapper_vars, normalize_vars, config_vars, main_vars>>

\* _sync_tasks_to_leads: get_cards_on_board() raises.
FetchCardsFails ==
    /\ pc = "B_cards"
    /\ FALSE \in WrappedOk
    /\ Escape("B", "cards")

\* `if not cards` that is never true.
no_cards_never(fetched) == FALSE

\* `if not cards: return` of _sync_tasks_to_leads.
no_cards(fetched) == fetched = <<>>

\* _sync_tasks_to_leads: get_cards_on_board() returns.
FetchCards ==
    /\ pc = "B_cards"
    /\ TRUE \in WrappedOk
    /\ Fetched("B", "cards")
    /\ IF no_cards(board)
       THEN pc' = After("B") /\ cards' = <<>>
       ELSE pc' = "B_leads" /\ cards' = board
    /\ UNCHANGED <<sheet, board, stats, run, lead_map, bi, leads, ai, made, start, faults, wrapper_vars, normalize_vars, config_vars, main_vars>>

\* _sync_tasks_to_leads: get_all_leads() raises.
MapLeadsFails ==
    /\ pc = "B_leads"
    /\ FALSE \in WrappedOk
    /\ Escape("B", "leads")

\* _sync_tasks_to_leads: get_all_leads() returns and lead_map is built.
MapLeads ==
    /\ pc = "B_leads"
    /\ TRUE \in WrappedOk
    /\ Fetched("B", "leads")
    /\ lead_map' = BuildLeadMap(read_leads(sheet))
    /\ bi' = 1
    /\ pc' = "B_loop"
    /\ UNCHANGED <<sheet, board, stats, run, cards, leads, ai, made, start, faults, wrapper_vars, normalize_vars, config_vars, main_vars>>

\* _sync_tasks_to_leads: one turn of the loop over the cards.
ProcessCard ==
    /\ pc = "B_loop"
    /\ \E r \in {process_task_to_lead(cards[bi], lead_map, sheet, stats, net) :
                   net \in NetLeft} :
         LET card == cards[bi]
         IN  /\ sheet' = r.sheet
             /\ faults' = faults + Failed(r.calls)
             /\ stats' = per_task_handler(r.stats, r.raised)
             /\ log' = Append(log, Ev("B", "item", 0, card.id, r.branch, r.calls,
                                      r.raised, stats, stats'))
    /\ IF bi = Len(cards)
       THEN pc' = After("B") /\ cards' = <<>> /\ lead_map' = NoMap /\ bi' = 0
       ELSE pc' = pc /\ cards' = cards /\ lead_map' = lead_map /\ bi' = bi + 1
    /\ UNCHANGED <<board, run, leads, ai, made, start, wrapper_vars, normalize_vars, config_vars, main_vars>>

\* _sync_leads_to_tasks: get_all_leads() raises.
FetchLeadsFails ==
    /\ pc = "A_leads"
    /\ FALSE \in WrappedOk
    /\ Escape("A", "leads")

\* _sync_leads_to_tasks: get_all_leads() returns.
FetchLeads ==
    /\ pc = "A_leads"
    /\ TRUE \in WrappedOk
    /\ Fetched("A", "leads")
    /\ IF sheet = <<>>
       THEN pc' = After("A") /\ leads' = <<>> /\ ai' = 0
       ELSE pc' = "A_loop" /\ leads' = read_leads(sheet) /\ ai' = 1
    /\ UNCHANGED <<sheet, board, stats, run, cards, lead_map, bi, made, start, faults, wrapper_vars, normalize_vars, config_vars, main_vars>>

\* _sync_leads_to_tasks: one turn of the loop over the leads.
ProcessLead ==
    /\ pc = "A_loop"
    /\ \E r \in {process_lead_to_task(leads[ai], board, sheet, stats,
                                       CardId(Len(made) + 1), net) : net \in NetLeft} :
         LET lead == leads[ai]
         IN  /\ sheet' = r.sheet
             /\ faults' = faults + Failed(r.calls)
             /\ board' = r.board
             /\ stats' = per_record_handler(r.stats, r.raised)
             /\ made' = IF r.created
                        THEN Append(made, [row |-> lead.row_number, run |-> run,
                                           branch |-> r.branch])
                        ELSE made
             /\ log' = Append(log, Ev("A", "item", lead.row_number, <<>>, r.branch,
                                      r.calls, r.raised, stats, stats'))
    /\ IF ai = Len(leads)
       THEN pc' = After("A") /\ leads' = <<>> /\ ai' = 0
       ELSE pc' = pc /\ leads' = leads /\ ai' = ai + 1
    /\ UNCHANGED <<run, cards, lead_map, bi, start, wrapper_vars, normalize_vars, config_vars, main_vars>>

\* run_sync returns sync_stats to its caller.
Return ==
    /\ pc = "returned"
    /\ pc' = "idle"
    /\ UNCHANGED <<sheet, board, stats, run, cards, lead_map, bi, leads, ai, log, made,
                   start, faults, wrapper_vars, normalize_vars, config_vars, main_vars>>

Next ==
    \/ RunSync
    \/ FetchCardsFails
    \/ FetchCards
    \/ MapLeadsFails
    \/ MapLeads
    \/ ProcessCard
    \/ FetchLeadsFails
    \/ FetchLeads
    \/ ProcessLead
    \/ Return

Spec == Init /\ [][Next]_vars

\* ------------------------------------------------------------------ run_sync runs to its end

\* For each decorated operation, the methods whose body calls it.
called_from_nested ==
    [read_leads |-> {"get_all_leads", "find_row_by_lead_id", "update_lead_by_row"},
     update_lead |-> {"update_lead_by_row", "append_lead"},
     append_lead |-> {},
     create_card |-> {"create_task_for_lead"},
     get_card |-> {},
     update_card |-> {"update_task"},
     get_all_cards |-> {"get_cards_on_board", "search_card_by_lead_id"},
     delete_card |-> {}]

called_from ==
    [read_leads |-> {"get_all_leads", "find_row_by_lead_id", "update_lead_by_row"},
     update_lead |-> {"update_lead_by_row"},
     append_lead |-> {},
     create_card |-> {"create_task_for_lead"},
     get_card |-> {},
     update_card |-> {"update_task"},
     get_all_cards |-> {"get_cards_on_board", "search_card_by_lead_id"},
     delete_card |-> {}]

\* The decorated operations a call of the engine goes through.
wrapped_in ==
    [get_cards_on_board |-> <<"get_all_cards">>,
     get_all_leads |-> <<"read_leads">>,
     get_card |-> <<"get_card">>,
     create_task_for_lead |-> <<"create_card">>,
     update_task |-> <<"update_card">>,
     update_lead_by_row |-> <<"read_leads", "update_lead">>]

\* The numbers of invocations of its body that one call of a decorated
\* operation can make.
InvocationsPerCall == {retry_with_backoff(p).invocations : p \in AttemptPatterns}

\* One step of run_sync once it has been entered, as seen on its position:
\* every statement it executes moves pc, or ai or bi inside a loop.
RunSyncStep ==
    /\ pc # "idle"
    /\ pc' \in {"B_cards", "B_leads", "B_loop", "A_leads", "A_loop", "returned", "idle"}
    /\ ai' \in 0..Len(sheet)
    /\ bi' \in 0..Len(board)

\* The process is sequential and nothing in it blocks: a call returns or raises
\* after at most max_retries + 1 invocations and the finite delays between
\* them, so run_sync, once entered, keeps taking its next step. Entering
\* run_sync is left to the caller.
\* The engine before the last run_sync its caller makes.
LiveInit ==
    /\ sheet \in InitSheets
    /\ board \in InitBoards
    /\ stats = ZeroStats
    /\ pc = "idle"
    /\ run = MaxRuns - 1
    /\ cards = <<>>
    /\ lead_map = NoMap
    /\ bi = 0
    /\ leads = <<>>
    /\ ai = 0
    /\ log = <<>>
    /\ made = <<>>
    /\ start = [sheet |-> sheet, board |-> board]
    /\ faults = 0
    /\ WrapperIdle
    /\ NormalizeIdle
    /\ ConfigIdle
    /\ MainIdle

LiveSpec == LiveInit /\ [][Next]_vars /\ WF_<<pc, ai, bi>>(RunSyncStep)

\* ------------------------------------------------------------------ one call of a client operation

\* The network-facing operations of LeadClient and TaskClient, and whether the
\* method carries @retry_with_backoff(max_retries=3).
decorated ==
    [read_leads |-> TRUE, update_lead |-> TRUE, append_lead |-> TRUE,
     create_card |-> TRUE, get_card |-> TRUE, update_card |-> TRUE,
     get_all_cards |-> TRUE, delete_card |-> FALSE]

\* What the body of an operation does at one invocation: it returns, or raises
\* an exception in which the wrapper finds this status code, or none.
BodyOutcomes == {Returns} \cup {Raises(c) : c \in {400, 401, 403, 429, 500, NoStatus}}

engine_vars ==
    <<sheet, board, stats, pc, run, cards, lead_map, bi, leads, ai, log, made,
      start, faults>>

\* The engine is constructed and not running; the stores are empty.
EngineIdle ==
    /\ sheet = <<>>
    /\ board = <<>>
    /\ stats = ZeroStats
    /\ pc = "idle"
    /\ run = 0
    /\ cards = <<>>
    /\ lead_map = NoMap
    /\ bi = 0
    /\ leads = <<>>
    /\ ai = 0
    /\ log = <<>>
    /\ made = <<>>
    /\ start = [sheet |-> <<>>, board |-> <<>>]
    /\ faults = 0

\* A caller is about to call one operation; the engine is not running.
WrapperInit ==
    /\ EngineIdle
    /\ NormalizeIdle
    /\ ConfigIdle
    /\ MainIdle
    /\ w_func \in DOMAIN decorated
    /\ w_outcomes \in [1..(max_retries + 1) -> BodyOutcomes]
    /\ w_attempt = 0
    /\ w_calls = 0
    /\ w_sleeps = <<>>
    /\ w_result = "running"
    /\ w_error = NoError

\* wrapper(): return func(*args, **kwargs)
WrapperReturns ==
    /\ w_result = "running"
    /\ decorated[w_func]
    /\ ~w_outcomes[w_attempt + 1].raised
    /\ w_calls' = w_calls + 1
    /\ w_result' = "returned"
    /\ UNCHANGED <<engine_vars, normalize_vars, config_vars, main_vars, w_func, w_outcomes, w_attempt, w_sleeps, w_error>>

\* wrapper(): status_code in [401, 403, 400]: raise
WrapperReraisesTerminal ==
    /\ w_result = "running"
    /\ decorated[w_func]
    /\ w_outcomes[w_attempt + 1].raised
    /\ w_outcomes[w_attempt + 1].status_code \in Terminal
    /\ w_calls' = w_calls + 1
    /\ w_result' = "raised"
    /\ w_error' = [attempt |-> w_calls + 1,
                   status_code |-> w_outcomes[w_attempt + 1].status_code]
    /\ UNCHANGED <<engine_vars, normalize_vars, config_vars, main_vars, w_func, w_outcomes, w_attempt, w_sleeps>>

\* wrapper(): attempt == max_retries: raise
WrapperGivesUp ==
    /\ w_result = "running"
    /\ decorated[w_func]
    /\ w_outcomes[w_attempt + 1].raised
    /\ w_outcomes[w_attempt + 1].status_code \notin Terminal
    /\ w_attempt = max_retries
    /\ w_calls' = w_calls + 1
    /\ w_result' = "raised"
    /\ w_error' = [attempt |-> w_calls + 1,
                   status_code |-> w_outcomes[w_attempt + 1].status_code]
    /\ UNCHANGED <<engine_vars, normalize_vars, config_vars, main_vars, w_func, w_outcomes, w_attempt, w_sleeps>>

\* wrapper(): time.sleep(delay) and the next turn of the loop
WrapperSleeps ==
    /\ w_result = "running"
    /\ decorated[w_func]
    /\ w_outcomes[w_attempt + 1].raised
    /\ w_outcomes[w_attempt + 1].status_code \notin Terminal
    /\ w_attempt # max_retries
    /\ w_calls' = w_calls + 1
    /\ w_sleeps' = Append(w_sleeps, delay(w_attempt))
    /\ w_attempt' = w_attempt + 1
    /\ UNCHANGED <<engine_vars, normalize_vars, config_vars, main_vars, w_func, w_outcomes, w_result, w_error>>

\* TaskClient.delete_card, which has no decorator: its body runs once and its
\* except Exception returns False.
CallUndecorated ==
    /\ w_result = "running"
    /\ ~decorated[w_func]
    /\ w_calls' = w_calls + 1
    /\ w_result' = IF w_outcomes[1].raised THEN "false" ELSE "returned"
    /\ UNCHANGED <<engine_vars, normalize_vars, config_vars, main_vars, w_func, w_outcomes, w_attempt, w_sleeps, w_error>>

WrapperNext ==
    \/ WrapperReturns
    \/ WrapperReraisesTerminal
    \/ WrapperGivesUp
    \/ WrapperSleeps
    \/ CallUndecorated

WrapperSpec == WrapperInit /\ [][WrapperNext]_vars

\* ------------------------------------------------------------------ one call of normalize_status

\* The keys of status_map.
StatusKeys == {status_map[i][1] : i \in DOMAIN status_map}

\* s with every "_" written as c.
Underscore(s, c) == [i \in DOMAIN s |-> IF s[i] = "_" THEN c ELSE s[i]]

\* The strings of length n over the characters of cs.
StringsOver(cs, n) == UNION {[1..k -> cs] : k \in 0..n}

\* The arguments normalize_status is called with: None, every key of the
\* table as it is, in upper case, with blanks or hyphens for underscores and
\* with white space around it, and every short string over a few characters.
StatusInputs ==
    {PyNone}
       \cup StatusKeys
       \cup {Upper(k) : k \in StatusKeys}
       \cup {Underscore(k, " ") : k \in StatusKeys}
       \cup {Underscore(k, "-") : k \in StatusKeys}
       \cup {<<" ">> \o k \o <<"\t", "\n">> : k \in StatusKeys}
       \cup StringsOver({"n", "e", "w", "W", " ", "-", "_", "\t"}, MaxLen)

NormalizeInit ==
    /\ EngineIdle
    /\ WrapperIdle
    /\ ConfigIdle
    /\ MainIdle
    /\ n_status \in StatusInputs
    /\ n_once = <<>>
    /\ n_twice = <<>>
    /\ n_pc = "input"

\* normalize_status(status)
Normalize ==
    /\ n_pc = "input"
    /\ n_once' = normalize_status(n_status)
    /\ n_pc' = "once"
    /\ UNCHANGED <<engine_vars, wrapper_vars, config_vars, main_vars, n_status, n_twice>>

\* normalize_status(normalize_status(status))
NormalizeAgain ==
    /\ n_pc = "once"
    /\ n_twice' = normalize_status(n_once)
    /\ n_pc' = "twice"
    /\ UNCHANGED <<engine_vars, wrapper_vars, config_vars, main_vars, n_status, n_once>>

NormalizeNext ==
    \/ Normalize
    \/ NormalizeAgain

NormalizeSpec == NormalizeInit /\ [][NormalizeNext]_vars

\* ------------------------------------------------------------------ one TaskClient

\* The values a list ID has in the environment.
ListIdChoices == {NoneValue, "", "L1", "L2", "L3", "L4"}

\* The configurations the process may be started with.
Configs ==
    {[SHEET_ID |-> v[1], TRELLO_KEY |-> v[2], TRELLO_TOKEN |-> v[3],
      TRELLO_BOARD_ID |-> v[4],
      TRELLO_LIST_TODO_ID |-> l[1], TRELLO_LIST_IN_PROGRESS_ID |-> l[2],
      TRELLO_LIST_DONE_ID |-> l[3], TRELLO_LIST_LOST_ID |-> l[4],
      GOOGLE_CREDS_PATH |-> f] :
        v \in [1..4 -> {NoneValue, "set"}], l \in [1..4 -> ListIdChoices],
        f \in {"./service-account.json", "./missing.json"}}

\* The configuration has been read from the environment.
ConfigInit ==
    /\ EngineIdle
    /\ WrapperIdle
    /\ NormalizeIdle
    /\ MainIdle
    /\ config \in Configs
    /\ c_pc = "loaded"
    /\ c_list_id = ""
    /\ c_status = <<>>

\* Config.validate() returns True.
ValidateReturns ==
    /\ c_pc = "loaded"
    /\ validate(config) = "True"
    /\ c_pc' = "validated"
    /\ UNCHANGED <<engine_vars, wrapper_vars, normalize_vars, main_vars, config,
                   c_list_id, c_status>>

\* Config.validate() raises ValueError or FileNotFoundError.
ValidateRaises ==
    /\ c_pc = "loaded"
    /\ validate(config) # "True"
    /\ c_pc' = "rejected"
    /\ UNCHANGED <<engine_vars, wrapper_vars, normalize_vars, main_vars, config,
                   c_list_id, c_status>>

\* TaskClient(): self.list_ids is built from the configuration.
ConstructTaskClient ==
    /\ c_pc = "validated"
    /\ c_pc' = "constructed"
    /\ UNCHANGED <<engine_vars, wrapper_vars, normalize_vars, main_vars, config,
                   c_list_id, c_status>>

\* task_client.get_status_from_list_id(list_id), for the ID of any list.
LookUpList ==
    /\ c_pc = "constructed"
    /\ \E list_id \in (ListIdChoices \ {NoneValue, ""}) \cup {OtherList} :
          /\ c_list_id' = list_id
          /\ c_status' = first_status_of(TaskClient_list_ids(config), list_id)
    /\ c_pc' = "looked_up"
    /\ UNCHANGED <<engine_vars, wrapper_vars, normalize_vars, main_vars, config>>

ConfigNext ==
    \/ ValidateReturns
    \/ ValidateRaises
    \/ ConstructTaskClient
    \/ LookUpList

ConfigSpec == ConfigInit /\ [][ConfigNext]_vars

\* ------------------------------------------------------------------ main

\* The values of --direction.
Directions == {"both", "leads-to-tasks", "tasks-to-leads"}

\* The flow main calls itself for a direction other than both.
FlowOf_swapped(direction) == IF direction = "leads-to-tasks" THEN "B" ELSE "A"

FlowOf(direction) == IF direction = "leads-to-tasks" THEN "A" ELSE "B"

\* main with the `if args.dry_run: ... return` left out.
returns_never(args) == FALSE

\* main returns after the validation, before SyncEngine(), when --dry-run is
\* given.
returns_before_engine(args) == args.dry_run

\* The exit code of `sys.exit(1) if stats['errors'] > 0 else sys.exit(0)`.
exit_code(st) == IF st.errors > 0 THEN 1 ELSE 0

\* A bare `except:` around each lead.
per_record_clause_bare == "BaseException"

\* The class named by the except clause around each lead, around each card, in
\* update_lead_by_row, in run_sync and, for an interrupt, in main.
per_record_clause == "Exception"

per_task_clause == "Exception"

by_row_clause == "Exception"

run_sync_clause == "Exception"

main_clause == "KeyboardInterrupt"

except_clause ==
    [update_lead_by_row |-> by_row_clause, per_record |-> per_record_clause,
     per_task |-> per_task_clause, run_sync |-> run_sync_clause,
     main |-> main_clause]

\* Whether `except clause` catches an exception of class exc; KeyboardInterrupt
\* derives from BaseException and not from Exception.
catches(clause, exc) == clause = "BaseException" \/ clause = exc

\* The first handler, from the innermost, that catches exc. The handlers of the
\* flows catch and re-raise, and time.sleep is called inside the except block of
\* the retry wrapper, so neither stops an exception raised there.
CaughtBy(chain, exc) ==
    chain[CHOOSE i \in DOMAIN chain :
             /\ catches(except_clause[chain[i]], exc)
             /\ \A j \in 1..(i - 1) : ~catches(except_clause[chain[j]], exc)]

\* The handlers outside a flow: run_sync when it made the call, then main.
Outer == IF m_pc = "run_sync" THEN <<"run_sync", "main">> ELSE <<"main">>

\* The configurations main is started with: a valid one, one with a variable
\* not set, one with a variable set to the empty string, one whose credential
\* file does not exist.
MainConfigs ==
    {ValidConfig,
     [ValidConfig EXCEPT !.SHEET_ID = NoneValue],
     [ValidConfig EXCEPT !.TRELLO_LIST_LOST_ID = ""],
     [ValidConfig EXCEPT !.GOOGLE_CREDS_PATH = "./missing.json"]}

\* main has parsed its arguments and entered its try block.
MainInit ==
    /\ sheet \in InitSheets
    /\ board \in InitBoards
    /\ stats = ZeroStats
    /\ pc = "idle"
    /\ run = 0
    /\ cards = <<>>
    /\ lead_map = NoMap
    /\ bi = 0
    /\ leads = <<>>
    /\ ai = 0
    /\ log = <<>>
    /\ made = <<>>
    /\ start = [sheet |-> sheet, board |-> board]
    /\ faults = 0
    /\ WrapperIdle
    /\ NormalizeIdle
    /\ config \in MainConfigs
    /\ c_pc = "idle"
    /\ c_list_id = ""
    /\ c_status = <<>>
    /\ m_args \in [direction : Directions, dry_run : BOOLEAN]
    /\ m_pc = "start"
    /\ m_exit = NoExit
    /\ m_report = FALSE
    /\ m_net = 0

\* What main leaves alone outside its own position and exit code.
MainOnly ==
    UNCHANGED <<engine_vars, wrapper_vars, normalize_vars, config_vars, m_args,
                m_report, m_net>>

\* Config.validate() returns True.
MainValidates ==
    /\ m_pc = "start"
    /\ validate(config) = "True"
    /\ m_pc' = "validated"
    /\ m_exit' = m_exit
    /\ MainOnly

\* Config.validate() raises; except FileNotFoundError / except ValueError:
\* sys.exit(1).
MainConfigError ==
    /\ m_pc = "start"
    /\ validate(config) # "True"
    /\ m_pc' = "exited"
    /\ m_exit' = 1
    /\ MainOnly

\* if args.dry_run: ... return
MainDryRun ==
    /\ m_pc = "validated"
    /\ returns_before_engine(m_args)
    /\ m_pc' = "exited"
    /\ m_exit' = 0
    /\ MainOnly

\* sync_engine = SyncEngine(): LeadClient() reads the credential file and
\* builds the service, TaskClient() asks the board for itself over the network.
MainConstructs ==
    /\ m_pc = "validated"
    /\ ~returns_before_engine(m_args)
    /\ m_pc' = "constructed"
    /\ m_net' = m_net + 1
    /\ UNCHANGED <<engine_vars, wrapper_vars, normalize_vars, config_vars, m_args,
                   m_exit, m_report>>

\* SyncEngine() raises: LeadClient._authenticate on a credential file it cannot
\* find or use (no call has been made), or TaskClient._validate_connection on a
\* failed request. One of the except clauses of main: sys.exit(1).
MainConstructFails ==
    /\ m_pc = "validated"
    /\ ~returns_before_engine(m_args)
    /\ m_pc' = "exited"
    /\ m_exit' = 1
    /\ \/ m_net' = m_net
       \/ /\ config.GOOGLE_CREDS_PATH \in ExistingFiles
          /\ m_net' = m_net + 1
    /\ UNCHANGED <<engine_vars, wrapper_vars, normalize_vars, config_vars, m_args,
                   m_report>>

\* stats = sync_engine.run_sync()
MainCallsRunSync ==
    /\ m_pc = "constructed"
    /\ m_args.direction = "both"
    /\ run_sync_enters
    /\ m_pc' = "run_sync"
    /\ UNCHANGED <<wrapper_vars, normalize_vars, config_vars, m_args, m_exit,
                   m_report, m_net>>

\* sync_engine._sync_leads_to_tasks() or sync_engine._sync_tasks_to_leads():
\* the flow is called without run_sync around it.
MainCallsFlow ==
    /\ m_pc = "constructed"
    /\ m_args.direction # "both"
    /\ pc = "idle"
    /\ pc' = Start(FlowOf(m_args.direction))
    /\ m_pc' = "flow"
    /\ UNCHANGED <<sheet, board, stats, run, cards, lead_map, bi, leads, ai, log,
                   made, start, faults, wrapper_vars, normalize_vars, config_vars,
                   m_args, m_exit, m_report, m_net>>

\* run_sync or the flow returns to main.
MainSyncReturns ==
    /\ m_pc \in {"run_sync", "flow"}
    /\ pc = "returned"
    /\ pc' = "idle"
    /\ m_pc' = "report"
    /\ UNCHANGED <<sheet, board, stats, run, cards, lead_map, bi, leads, ai, log,
                   made, start, faults, wrapper_vars, normalize_vars, config_vars,
                   m_args, m_exit, m_report, m_net>>

\* The exception that left the flow reaches main; except Exception: sys.exit(1).
MainUnexpectedError ==
    /\ m_pc = "flow"
    /\ pc = "raised"
    /\ pc' = "idle"
    /\ m_pc' = "exited"
    /\ m_exit' = 1
    /\ UNCHANGED <<sheet, board, stats, run, cards, lead_map, bi, leads, ai, log,
                   made, start, faults, wrapper_vars, normalize_vars, config_vars,
                   m_args, m_report, m_net>>

\* print(sync_engine.get_sync_report())
MainPrintsReport ==
    /\ m_pc = "report"
    /\ m_pc' = "printed"
    /\ m_report' = TRUE
    /\ UNCHANGED <<engine_vars, wrapper_vars, normalize_vars, config_vars, m_args,
                   m_exit, m_net>>

\* sys.exit(1) or sys.exit(0), by the errors counter.
MainExits ==
    /\ m_pc = "printed"
    /\ m_pc' = "exited"
    /\ m_exit' = exit_code(stats)
    /\ MainOnly

\* The log entry of a KeyboardInterrupt raised in a flow.
Interrupt(flow, row, card, where, after) ==
    Ev(flow, "interrupt", row, card, where, <<>>, TRUE, stats, after)

\* Where a KeyboardInterrupt goes that no handler inside the loop caught: to
\* run_sync's handler if that catches it, else to main: sys.exit(130).
Propagates(by) ==
    IF by = "main"
    THEN /\ stats' = stats
         /\ pc' = "interrupted"
         /\ m_pc' = "exited"
         /\ m_exit' = 130
         /\ UNCHANGED <<cards, lead_map, bi, leads, ai>>
    ELSE /\ stats' = run_level_handler(stats)
         /\ pc' = "returned"
         /\ Locals0
         /\ UNCHANGED <<m_pc, m_exit>>

\* The loop over the cards goes on after an exception was caught inside it.
NextCard ==
    /\ IF bi = Len(cards)
       THEN pc' = After("B") /\ cards' = <<>> /\ lead_map' = NoMap /\ bi' = 0
       ELSE pc' = pc /\ cards' = cards /\ lead_map' = lead_map /\ bi' = bi + 1
    /\ UNCHANGED <<leads, ai, m_pc, m_exit>>

\* The loop over the leads goes on after an exception was caught inside it.
NextLead ==
    /\ IF ai = Len(leads)
       THEN pc' = After("A") /\ leads' = <<>> /\ ai' = 0
       ELSE pc' = pc /\ leads' = leads /\ ai' = ai + 1
    /\ UNCHANGED <<cards, lead_map, bi, m_pc, m_exit>>

\* Ctrl-C between two turns of a loop over the cards or over the leads.
InterruptBetweenRecords ==
    /\ m_pc \in {"run_sync", "flow"}
    /\ pc \in {"B_loop", "A_loop"}
    /\ Propagates(CaughtBy(Outer, "KeyboardInterrupt"))
    /\ log' = Append(log, Interrupt(IF pc = "B_loop" THEN "B" ELSE "A", 0, <<>>,
                                    "between", stats'))
    /\ UNCHANGED <<sheet, board, run, made, start, faults, wrapper_vars,
                   normalize_vars, config_vars, m_args, m_report, m_net>>

\* Ctrl-C during the time.sleep of the retry wrapper around a fetch of all
\* cards or of all leads.
InterruptFetchInSleep ==
    /\ m_pc \in {"run_sync", "flow"}
    /\ pc \in {"B_cards", "B_leads", "A_leads"}
    /\ Propagates(CaughtBy(Outer, "KeyboardInterrupt"))
    /\ log' = Append(log, Interrupt(IF pc = "A_leads" THEN "A" ELSE "B", 0, <<>>,
                                    "fetch", stats'))
    /\ UNCHANGED <<sheet, board, run, made, start, faults, wrapper_vars,
                   normalize_vars, config_vars, m_args, m_report, m_net>>

\* Ctrl-C during the time.sleep of the retry wrapper inside update_lead_by_row,
\* the one call _process_task_to_lead makes: nothing has been written.
InterruptCardInSleep ==
    /\ m_pc \in {"run_sync", "flow"}
    /\ pc = "B_loop"
    /\ LET card == cards[bi]
           r == process_task_to_lead(card, lead_map, sheet, stats, AllOk)
           by == CaughtBy(<<"update_lead_by_row", "per_task">> \o Outer,
                          "KeyboardInterrupt")
       IN  /\ r.calls # <<>>
           /\ CASE by = "update_lead_by_row" ->
                     stats' = per_task_handler(r.stats, FALSE) /\ NextCard
                [] by = "per_task" ->
                     stats' = per_task_handler(stats, TRUE) /\ NextCard
                [] OTHER -> Propagates(by)
           /\ log' = Append(log, Interrupt("B", 0, card.id, "sleep", stats'))
    /\ UNCHANGED <<sheet, board, run, made, start, faults, wrapper_vars,
                   normalize_vars, config_vars, m_args, m_report, m_net>>

\* Ctrl-C during the time.sleep of the retry wrapper around the k-th call
\* _process_lead_to_task makes for a lead: the calls before it have returned,
\* so a card that was created is on the board and its ID is not in the sheet.
InterruptLeadInSleep ==
    /\ m_pc \in {"run_sync", "flow"}
    /\ pc = "A_loop"
    /\ LET lead == leads[ai]
           r == process_lead_to_task(lead, board, sheet, stats,
                                     CardId(Len(made) + 1), AllOk)
       IN  \E k \in DOMAIN r.calls :
             LET in_by_row == r.calls[k].op = "update_lead_by_row"
                 by == CaughtBy((IF in_by_row THEN <<"update_lead_by_row">>
                                 ELSE <<>>) \o <<"per_record">> \o Outer,
                                "KeyboardInterrupt")
                 created ==
                     \E j \in 1..(k - 1) : r.calls[j].op = "create_task_for_lead"
             IN  /\ board' = IF created THEN r.board ELSE board
                 /\ made' = IF created
                            THEN Append(made, [row |-> lead.row_number, run |-> run,
                                               branch |-> r.branch])
                            ELSE made
                 /\ CASE by = "update_lead_by_row" ->
                           stats' = per_record_handler(r.stats, FALSE) /\ NextLead
                      [] by = "per_record" ->
                           stats' = per_record_handler(stats, TRUE) /\ NextLead
                      [] OTHER -> Propagates(by)
                 /\ log' = Append(log, Interrupt("A", lead.row_number, <<>>, "sleep",
                                                 stats'))
    /\ UNCHANGED <<sheet, run, start, faults, wrapper_vars, normalize_vars,
                   config_vars, m_args, m_report, m_net>>

MainNext ==
    \/ MainValidates
    \/ MainConfigError
    \/ MainDryRun
    \/ MainConstructs
    \/ MainConstructFails
    \/ MainCallsRunSync
    \/ MainCallsFlow
    \/ FetchCardsFails
    \/ FetchCards
    \/ MapLeadsFails
    \/ MapLeads
    \/ ProcessCard
    \/ FetchLeadsFails
    \/ FetchLeads
    \/ ProcessLead
    \/ InterruptBetweenRecords
    \/ InterruptFetchInSleep
    \/ InterruptCardInSleep
    \/ InterruptLeadInSleep
    \/ MainSyncReturns
    \/ MainUnexpectedError
    \/ MainPrintsReport
    \/ MainExits

MainSpec == MainInit /\ [][MainNext]_vars

\* ------------------------------------------------------------------ the forward flow alone

\* A row whose name is white space only and that carries the ID of a card.
BlankLinked ==
    [id |-> <<"L", "4">>, name |-> <<" ">>, email |-> <<>>, status |-> <<>>,
     source |-> <<>>, trello_task_id |-> <<"c", "0">>]

\* A row with white space around its email, source and ID.
PaddedFields ==
    [id |-> <<"L", "5", " ">>, name |-> <<"D", "i">>, email |-> <<" ", "d", "@", "x">>,
     status |-> <<"l", "o", "s", "t">>, source |-> <<"a", "d", " ">>,
     trello_task_id |-> <<>>]

ForwardRows == RowChoices \cup {BlankLinked, PaddedFields}

ForwardSheets == UNION {[1..n -> ForwardRows] : n \in 0..(MaxRows - 1)}

\* The card of LinkedLead with another title, another body, or both, in the
\* list of LinkedLead's status or in another one.
ForwardBoards ==
    InitBoards \cup
       {<<[id |-> <<"c", "0">>, name |-> n, desc |-> d, idList |-> l]>> :
           n \in {<<"C", "y">>, <<"C", "y", "d">>},
           d \in {format_card_description(<<>>, <<>>, <<"L", "3">>), <<"old">>},
           l \in {"TRELLO_LIST_DONE_ID", "TRELLO_LIST_TODO_ID"}}

\* main --direction leads-to-tasks has constructed the engine and called
\* _sync_leads_to_tasks.
ForwardInit ==
    /\ sheet \in ForwardSheets
    /\ board \in ForwardBoards
    /\ stats = ZeroStats
    /\ pc = "A_leads"
    /\ run = 1
    /\ cards = <<>>
    /\ lead_map = NoMap
    /\ bi = 0
    /\ leads = <<>>
    /\ ai = 0
    /\ log = <<>>
    /\ made = <<>>
    /\ start = [sheet |-> sheet, board |-> board]
    /\ faults = 0
    /\ WrapperIdle
    /\ NormalizeIdle
    /\ ConfigIdle
    /\ m_args = [direction |-> "leads-to-tasks", dry_run |-> FALSE]
    /\ m_pc = "flow"
    /\ m_exit = NoExit
    /\ m_report = FALSE
    /\ m_net = 1

\* The process has ended; main --direction leads-to-tasks is run once more on
\* the stores as they are, with a new engine.
ForwardAgain ==
    /\ pc \in {"returned", "raised"}
    /\ run < MaxRuns
    /\ run' = run + 1
    /\ stats' = ZeroStats
    /\ log' = <<>>
    /\ start' = [sheet |-> sheet, board |-> board]
    /\ pc' = "A_leads"
    /\ UNCHANGED <<sheet, board, cards, lead_map, bi, leads, ai, made, faults,
                   wrapper_vars, normalize_vars, config_vars, main_vars>>

ForwardNext ==
    \/ FetchLeadsFails
    \/ FetchLeads
    \/ ProcessLead
    \/ ForwardAgain

ForwardSpec == ForwardInit /\ [][ForwardNext]_vars

\* ------------------------------------------------------------------ the reverse flow alone

\* A second row that carries the card ID of LinkedLead, with another status.
LinkedTwin ==
    [id |-> <<"L", "6">>, name |-> <<"D", "e", "e">>, email |-> <<>>,
     status |-> <<"l", "o", "s", "t">>, source |-> <<>>,
     trello_task_id |-> <<"c", "0">>]

ReverseRows == {NewLead, LinkedLead, LinkedTwin, BlankLinked}

ReverseSheets == UNION {[1..n -> ReverseRows] : n \in 0..MaxRows}

\* A card whose ID is in no row of the sheet.
OrphanCard ==
    [id |-> <<"c", "8">>, name |-> <<"E", "d">>, desc |-> <<"old">>,
     idList |-> "TRELLO_LIST_DONE_ID"]

\* Boards of at most two cards with different IDs.
ReverseBoards ==
    LET linked == {ExistingCard(l) :
                     l \in {"TRELLO_LIST_TODO_ID", "TRELLO_LIST_DONE_ID",
                            "TRELLO_LIST_LOST_ID", OtherList, NoKey}}
    IN  {<<>>, <<OrphanCard>>} \cup {<<c>> : c \in linked}
          \cup {<<c, OrphanCard>> : c \in linked}
          \cup {<<OrphanCard, c>> : c \in linked}

\* main --direction tasks-to-leads has constructed the engine and called
\* _sync_tasks_to_leads.
ReverseInit ==
    /\ sheet \in ReverseSheets
    /\ board \in ReverseBoards
    /\ stats = ZeroStats
    /\ pc = "B_cards"
    /\ run = 1
    /\ cards = <<>>
    /\ lead_map = NoMap
    /\ bi = 0
    /\ leads = <<>>
    /\ ai = 0
    /\ log = <<>>
    /\ made = <<>>
    /\ start = [sheet |-> sheet, board |-> board]
    /\ faults = 0
    /\ WrapperIdle
    /\ NormalizeIdle
    /\ ConfigIdle
    /\ m_args = [direction |-> "tasks-to-leads", dry_run |-> FALSE]
    /\ m_pc = "flow"
    /\ m_exit = NoExit
    /\ m_report = FALSE
    /\ m_net = 1

\* The process has ended; main --direction tasks-to-leads is run once more on
\* the stores as they are, with a new engine.
ReverseAgain ==
    /\ pc \in {"returned", "raised"}
    /\ run < MaxRuns
    /\ run' = run + 1
    /\ stats' = ZeroStats
    /\ log' = <<>>
    /\ start' = [sheet |-> sheet, board |-> board]
    /\ pc' = "B_cards"
    /\ UNCHANGED <<sheet, board, cards, lead_map, bi, leads, ai, made, faults,
                   wrapper_vars, normalize_vars, config_vars, main_vars>>

ReverseNext ==
    \/ FetchCardsFails
    \/ FetchCards
    \/ MapLeadsFails
    \/ MapLeads
    \/ ProcessCard
    \/ ReverseAgain

ReverseSpec == ReverseInit /\ [][ReverseNext]_vars

\* ------------------------------------------------------------------ the log

\* The positions in the log of the cards (flow B) or leads (flow A) processed.
ItemsOf(flow) == {i \in DOMAIN log : log[i].kind = "item" /\ log[i].flow = flow}

\* The positions in the calls of entry e of the calls of operation op.
CallsOf(e, op) == {k \in DOMAIN e.calls : e.calls[k].op = op}

OnBoard(card_id) == \E k \in DOMAIN board : board[k].id = card_id

\* The rows (as row numbers) of a sheet whose trello_task_id is card_id.
RowsLinkedTo(sh, card_id) ==
    {i + 1 : i \in {j \in DOMAIN sh : Strip(sh[j].trello_task_id) = card_id}}

\* ------------------------------------------------------------------ C1

\* C1: idempotency of the forward flow. A record that has a display name and an
\* empty task_ref when a run begins gets exactly one creation call in that run,
\* followed by exactly one write of the returned card ID into its
\* trello_task_id; and in the run after one in which the create branch made a
\* card for a record, the forward flow issues no creation call and at most one
\* update call for that record.
C1_Idempotency ==
    /\ \A i \in ItemsOf("A") :
         LET e == log[i]
             rec == start.sheet[e.row - 1]
         IN  (Strip(rec.name) # <<>> /\ Strip(rec.trello_task_id) = <<>>) =>
                /\ Cardinality(CallsOf(e, "create_task_for_lead")) = 1
                /\ e.calls[1].op = "create_task_for_lead"
                /\ e.calls[1].res = "ok" =>
                      /\ Len(e.calls) = 2
                      /\ e.calls[2].op = "update_lead_by_row"
                      /\ e.calls[2].row = e.row
                      /\ e.calls[2].fields = [trello_task_id |-> e.calls[1].card]
    /\ \A n \in DOMAIN made :
         (made[n].branch = "create" /\ made[n].run = run - 1) =>
            \A i \in ItemsOf("A") :
               log[i].row = made[n].row =>
                  /\ CallsOf(log[i], "create_task_for_lead") = {}
                  /\ Cardinality(CallsOf(log[i], "update_task")) <= 1

\* ------------------------------------------------------------------ C2

\* C2: linkage invariant. No two cards that the engine created for the same
\* record are on the board together.
C2_Linkage ==
    \A m, n \in DOMAIN made :
       (m # n /\ made[m].row = made[n].row) =>
          ~(OnBoard(CardId(m)) /\ OnBoard(CardId(n)))

\* ------------------------------------------------------------------ C3

\* The write calls of flow B that the store accepted, as <<log position, call>>.
WritesOfB ==
    {<<i, k>> \in (DOMAIN log) \X (1..1) :
        /\ i \in ItemsOf("B")
        /\ k \in CallsOf(log[i], "update_lead_by_row")}

\* C3: flow ordering within run_sync. Nothing of flow B (no fetch, no card and
\* so no store write) comes after flow A has read the leads, which is the
\* first thing flow A does; and the leads flow A works on carry every status
\* flow B wrote in this run.
C3_FlowOrder ==
    /\ \A i \in DOMAIN log :
          (i > 1 /\ log[i].flow = "A") =>
             (log[i - 1].flow = "A" \/ log[i].kind = "fetch")
    /\ \A i \in DOMAIN log :
          (i > 1 /\ log[i - 1].flow = "A") => log[i].flow = "A"
    /\ pc = "A_loop" =>
          \A w \in WritesOfB :
             LET c == log[w[1]].calls[w[2]]
             IN  c.res = "ok" => leads[c.row - 1].status = c.fields["status"]

\* Flow A is at work on leads that flow B wrote a status into.
C3_Witness ==
    /\ pc = "A_loop"
    /\ \E w \in WritesOfB :
          LET c == log[w[1]].calls[w[2]]
          IN  c.res = "ok" /\ start.sheet[c.row - 1].status # c.fields["status"]

\* ------------------------------------------------------------------ C4

\* The cards that, when the run began, were linked to exactly one record and
\* whose list status differed from that record's normalized status.
MovedOnBoard ==
    {k \in DOMAIN start.board :
        LET c == start.board[k]
            rows == RowsLinkedTo(start.sheet, c.id)
        IN  /\ c.idList # NoKey
            /\ Cardinality(rows) = 1
            /\ \A r \in rows :
                  get_status_from_list_id(c.idList)
                     # normalize_status(start.sheet[r - 1].status)}

\* C4: a status change made on the board is not overwritten. For such a card the
\* forward flow of the run issues no update that carries a status (a list
\* move), and the card stays in the list it was in when the run began.
C4_BoardChangeKept ==
    \A k \in MovedOnBoard :
       /\ \A i \in ItemsOf("A") :
             \A u \in CallsOf(log[i], "update_task") :
                log[i].calls[u].card = start.board[k].id =>
                   "status" \notin DOMAIN log[i].calls[u].fields
       /\ board[k].idList = start.board[k].idList

\* ------------------------------------------------------------------ C5

\* The positions in the log of the fetches of a flow that returned or raised.
FetchesOf(flow, raised) ==
    {i \in DOMAIN log :
        log[i].kind = "fetch" /\ log[i].flow = flow /\ log[i].raised = raised}

RaisedItems(flow) == {i \in ItemsOf(flow) : log[i].raised}

Bump(raised) == IF raised THEN 1 ELSE 0

\* C5: forward-flow failure isolation. The k-th lead the forward flow processes
\* is the lead of row k + 1, whether or not earlier leads raised; processing a
\* lead raises errors by one exactly when it raised; while the loop runs the
\* leads before position ai have been processed, and once the flow has returned
\* every row has been processed; the increase of errors since the flow fetched
\* the leads is the number of leads whose processing raised.
C5_ForwardIsolation ==
    LET items == ItemsOf("A")
    IN  /\ \A i \in items :
              /\ log[i].row = Cardinality({j \in items : j <= i}) + 1
              /\ log[i].after["errors"] =
                    log[i].before["errors"] + Bump(log[i].raised)
        /\ pc = "A_loop" => Cardinality(items) = ai - 1
        /\ \A f \in FetchesOf("A", FALSE) :
              /\ pc # "A_loop" => Cardinality(items) = Len(sheet)
              /\ stats["errors"] =
                    log[f].after["errors"]
                       + Cardinality({i \in items : log[i].raised})

\* The forward flow has returned; a lead raised and a later lead got its card.
C5_Witness ==
    /\ pc = "returned"
    /\ \E i, j \in ItemsOf("A") :
          /\ i < j
          /\ log[i].raised
          /\ ~log[j].raised
          /\ log[j].branch = "create"
          /\ CallsOf(log[j], "update_lead_by_row") # {}

\* ------------------------------------------------------------------ C6

\* C6: reverse-flow failure isolation. The k-th card the reverse flow processes
\* is the k-th card of the fetched list, whether or not earlier cards raised;
\* processing a card raises errors by one exactly when it raised; while the
\* loop runs the cards before position bi have been processed, and once the
\* flow has returned every fetched card has been processed.
C6_ReverseIsolation ==
    LET items == ItemsOf("B")
    IN  /\ \A i \in items :
              LET k == Cardinality({j \in items : j <= i})
              IN  /\ k <= Len(start.board)
                  /\ log[i].card = start.board[k].id
                  /\ log[i].after["errors"] =
                        log[i].before["errors"] + Bump(log[i].raised)
        /\ pc = "B_loop" => Cardinality(items) = bi - 1
        /\ (pc \notin {"B_leads", "B_loop"} /\ FetchesOf("B", FALSE) # {}
              /\ FetchesOf("B", TRUE) = {}) =>
                 Cardinality(items) = Len(start.board)

\* A card raised and the card after it was processed without raising.
C6_Witness ==
    \E i, j \in ItemsOf("B") :
       /\ i < j
       /\ log[i].raised
       /\ log[i].after["errors"] = log[i].before["errors"] + 1
       /\ ~log[j].raised

\* ------------------------------------------------------------------ C7

\* The positions in the log where an exception left a flow.
Escapes == {i \in DOMAIN log : log[i].kind = "escape"}

\* C7: run_sync never propagates. An exception leaves a flow at most once in a
\* run and the handler of run_sync raises errors by exactly one for it; from
\* then on run_sync is returning (or has returned) its statistics; and the
\* errors it returns are the items that raised plus the exceptions that left a
\* flow.
C7_NeverPropagates ==
    /\ Cardinality(Escapes) <= 1
    /\ \A i \in Escapes :
          /\ log[i].after["errors"] = log[i].before["errors"] + 1
          /\ i = Len(log)
          /\ pc \in {"returned", "idle"}
    /\ (run > 0 /\ pc \in {"returned", "idle"}) =>
          /\ DOMAIN stats = DOMAIN ZeroStats
          /\ stats["errors"] =
                Cardinality(RaisedItems("A")) + Cardinality(RaisedItems("B"))
                   + Cardinality(Escapes)

\* run_sync returns statistics that count an item that raised and an exception
\* that left the forward flow.
C7_Witness ==
    /\ pc = "returned"
    /\ Escapes # {}
    /\ RaisedItems("B") # {}
    /\ stats["errors"] = 2

\* ------------------------------------------------------------------ C8

\* C8: a failed fetch aborts its flow. When the fetch of the cards or of the
\* leads raises (retries exhausted), the flow that issued it has processed no
\* item and processes none; a reverse flow that failed so has left the sheet
\* and the board as they were; the failure is counted by the handler of
\* run_sync and by no item; and run_sync returns.
C8_FetchFailureAborts ==
    \A f \in DOMAIN log :
       (log[f].kind = "fetch" /\ log[f].raised) =>
          /\ ItemsOf(log[f].flow) = {}
          /\ log[f].flow = "B" => (sheet = start.sheet /\ board = start.board)
          /\ f + 1 = Len(log)
          /\ log[f + 1].kind = "escape"
          /\ log[f + 1].flow = log[f].flow
          /\ log[f + 1].before = log[f].after
          /\ pc \in {"returned", "idle"}

\* The fetch of the leads of the forward flow failed after the reverse flow
\* had processed a card.
C8_Witness ==
    /\ pc = "returned"
    /\ FetchesOf("A", TRUE) # {}
    /\ ItemsOf("B") # {}

\* ------------------------------------------------------------------ C9

\* The forward-flow items whose lead has a name and a task_ref that names no
\* card of the board, and whose lookup and creation calls returned.
Replaced ==
    {i \in ItemsOf("A") :
        LET rec == start.sheet[log[i].row - 1]
        IN  /\ Strip(rec.name) # <<>>
            /\ Strip(rec.trello_task_id) # <<>>
            /\ ~OnBoard(Strip(rec.trello_task_id))
            /\ \A k \in DOMAIN log[i].calls : log[i].calls[k].res # "raise"}

\* C9: self-healing of a broken linkage. For such a lead the lookup answers
\* not found, the forward flow creates exactly one card, which is then on the
\* board, issues one write of the new card ID into the trello_task_id of the
\* lead's row (and the row holds it when the store accepted the write),
\* raises tasks_created by one and leaves tasks_updated and errors as they were.
C9_SelfHealing ==
    \A i \in Replaced :
       LET e == log[i]
       IN  /\ Len(e.calls) = 3
           /\ e.calls[1].op = "get_card" /\ e.calls[1].res = "none"
           /\ e.calls[2].op = "create_task_for_lead"
           /\ OnBoard(e.calls[2].card)
           /\ e.calls[2].card # Strip(start.sheet[e.row - 1].trello_task_id)
           /\ e.calls[3].op = "update_lead_by_row"
           /\ e.calls[3].row = e.row
           /\ e.calls[3].fields = [trello_task_id |-> e.calls[2].card]
           /\ e.calls[3].res = "ok" =>
                 sheet[e.row - 1].trello_task_id = e.calls[2].card
           /\ e.after["tasks_created"] = e.before["tasks_created"] + 1
           /\ e.after["tasks_updated"] = e.before["tasks_updated"]
           /\ e.after["errors"] = e.before["errors"]

\* A lead whose card was gone got a replacement and its row holds the new ID.
C9_Witness ==
    \E i \in Replaced :
       /\ log[i].branch = "replace"
       /\ Len(log[i].calls) = 3
       /\ log[i].calls[3].res = "ok"
       /\ sheet[log[i].row - 1].trello_task_id = log[i].calls[2].card

\* ------------------------------------------------------------------ C10

\* The last of a non-empty set of row numbers.
LastRow(rows) == CHOOSE r \in rows : \A q \in rows : q <= r

\* The four statuses in upper case.
UpperCanonical == {Upper(c) : c \in Canonical}

\* C10: reverse status push. For a card of a configured or unknown list whose
\* ID is the task_ref of a lead (the lookup holds the last such row of the
\* sheet as it was when the run began) and whose status differs from that
\* lead's normalized status, the reverse flow issues exactly one write, to the
\* row of the lead, of the card's status in upper case as the lead's status
\* (and the row holds it when the store accepted the write), and raises
\* status_synced_to_sheets by one.
C10_ReversePush ==
    LET items == ItemsOf("B")
    IN  \A i \in items :
           LET e == log[i]
               card == start.board[Cardinality({j \in items : j <= i})]
               rows == RowsLinkedTo(start.sheet, card.id)
               row == LastRow(rows)
               card_status == get_status_from_list_id(card.idList)
               want == Upper(card_status)
           IN  (/\ card.idList # NoKey
                /\ rows # {}
                /\ card_status # normalize_status(start.sheet[row - 1].status)) =>
                   /\ Len(e.calls) = 1
                   /\ e.calls[1].op = "update_lead_by_row"
                   /\ e.calls[1].row = row
                   /\ e.calls[1].fields = [status |-> want]
                   /\ want \in UpperCanonical
                   /\ e.calls[1].res = "ok" => sheet[row - 1].status = want
                   /\ e.after["status_synced_to_sheets"] =
                         e.before["status_synced_to_sheets"] + 1

\* A card in the LOST list pushed "LOST" into the row of its lead, whose status
\* was another one.
C10_Witness ==
    \E i \in ItemsOf("B") :
       /\ Len(log[i].calls) = 1
       /\ log[i].card \in {start.board[k].id : k \in DOMAIN start.board}
       /\ log[i].calls[1].res = "ok"
       /\ log[i].calls[1].fields = [status |-> <<"L", "O", "S", "T">>]
       /\ sheet[log[i].calls[1].row - 1].status = <<"L", "O", "S", "T">>
       /\ normalize_status(start.sheet[log[i].calls[1].row - 1].status) # st_lost

\* ------------------------------------------------------------------ C11

\* A card (position k of the board as the run found it) and the one row r that
\* carries its ID have the same status; with in_full, the card's name and
\* description are also the ones the forward flow expects for the row.
InSync(r, k, in_full) ==
    LET c == start.board[k]
        rec == start.sheet[r - 1]
    IN  /\ c.idList # NoKey
        /\ RowsLinkedTo(start.sheet, c.id) = {r}
        /\ get_status_from_list_id(c.idList) = normalize_status(rec.status)
        /\ in_full =>
              /\ c.name = Strip(rec.name)
              /\ c.desc = format_card_description(Strip(rec.email), Strip(rec.source),
                                                  Strip(rec.id))

\* The run has issued a write for row r or card k: a store write of the reverse
\* flow for the card, or any call but the lookup of the forward flow for the row.
Wrote(r, k) ==
    \E i \in DOMAIN log :
       /\ log[i].kind = "item"
       /\ \/ log[i].flow = "B" /\ log[i].card = start.board[k].id /\ log[i].calls # <<>>
          \/ /\ log[i].flow = "A"
             /\ log[i].row = r
             /\ \E n \in DOMAIN log[i].calls : log[i].calls[n].op # "get_card"

C12_FailuresCounted ==
    \A i \in DOMAIN log :
       log[i].kind = "item" =>
          /\ Failed(log[i].calls) > 0 =>
                log[i].after["errors"] = log[i].before["errors"] + 1
          /\ (Failed(log[i].calls) = 0 /\ ~log[i].raised) =>
                log[i].after["errors"] = log[i].before["errors"]

\* ------------------------------------------------------------------ C13

\* C13: terminal errors are not retried. When the body of a decorated
\* operation raises with status code 400, 401 or 403 at its k-th invocation,
\* that is its last invocation, no delay is slept after it, and the call has
\* raised that very error to the caller; so a call whose first invocation
\* fails so has invoked the body once and slept nothing.
C13_TerminalNotRetried ==
    decorated[w_func] =>
       \A k \in 1..w_calls :
          (w_outcomes[k].raised /\ w_outcomes[k].status_code \in {400, 401, 403}) =>
             /\ w_calls = k
             /\ Len(w_sleeps) = k - 1
             /\ w_result = "raised"
             /\ w_error = [attempt |-> k, status_code |-> w_outcomes[k].status_code]
             /\ k = 1 => (w_calls = 1 /\ w_sleeps = <<>>)

\* A call failed at once with 400 and was raised after one invocation.
C13_Witness ==
    /\ decorated[w_func]
    /\ w_result = "raised"
    /\ w_outcomes[1] = Raises(400)
    /\ w_calls = 1
    /\ w_sleeps = <<>>
    /\ w_error = [attempt |-> 1, status_code |-> 400]

\* ------------------------------------------------------------------ C14

\* The invocations so far all failed with a status code that is not terminal,
\* or with none.
KeepsFailing ==
    \A k \in 1..w_calls :
       w_outcomes[k].raised /\ w_outcomes[k].status_code \notin {400, 401, 403}

\* C14: bounded retry. The body of a decorated operation is invoked at most
\* max_retries + 1 times; the k-th delay slept is base_delay *
\* backoff_factor^(k-1), i.e. 1, 2, 4; a delay is slept after every failed
\* invocation but the last one; a call that keeps failing ends after
\* max_retries + 1 invocations by raising the last error; and the body is not
\* invoked again after an invocation that returned.
C14_BoundedRetry ==
    decorated[w_func] =>
       /\ w_calls <= max_retries + 1
       /\ \A k \in DOMAIN w_sleeps : w_sleeps[k] = base_delay * Pow(backoff_factor, k - 1)
       /\ w_sleeps = SubSeq(<<1, 2, 4>>, 1, Len(w_sleeps))
       /\ w_result = "running" => Len(w_sleeps) = w_calls
       /\ w_result \in {"returned", "raised"} => Len(w_sleeps) = w_calls - 1
       /\ (w_result # "running" /\ KeepsFailing) =>
             /\ w_calls = max_retries + 1
             /\ w_result = "raised"
             /\ w_error = [attempt |-> w_calls,
                           status_code |-> w_outcomes[w_calls].status_code]
       /\ (w_result = "running" /\ KeepsFailing) => w_calls <= max_retries
       /\ \A k \in 1..w_calls :
             ~w_outcomes[k].raised => (w_calls = k /\ w_result = "returned")

\* A call that kept failing, first without a status code and last with 500,
\* was given up after four invocations and the delays 1, 2, 4.
C14_Witness ==
    /\ decorated[w_func]
    /\ w_result = "raised"
    /\ w_outcomes[1] = Raises(NoStatus)
    /\ w_outcomes[max_retries + 1] = Raises(500)
    /\ w_calls = max_retries + 1
    /\ w_sleeps = <<1, 2, 4>>
    /\ w_error = [attempt |-> max_retries + 1, status_code |-> 500]

\* ------------------------------------------------------------------ C15

\* C15: the retry policy wraps every network-facing operation. For each of the
\* eight operations, a call whose first invocation fails with an error that
\* is not terminal does not end before the body has been invoked again.
C15_EveryOperationRetries ==
    (/\ w_func \in {"read_leads", "update_lead", "append_lead", "create_card",
                    "get_card", "update_card", "get_all_cards", "delete_card"}
     /\ w_result \notin {"idle", "running"}
     /\ w_outcomes[1].raised
     /\ w_outcomes[1].status_code \notin Terminal) =>
        w_calls >= 2

\* ------------------------------------------------------------------ C16

\* C16: statistics are scoped to one run. Every counter is 0 before the first
\* run and when a run starts, whatever earlier runs counted; from then on each
\* step of the run starts from the statistics the step before it left, and the
\* statistics are the ones the last step left: they count the steps of this
\* run and nothing else.
C16_StatsScopedToRun ==
    /\ run = 0 => stats = ZeroStats
    /\ log = <<>> => stats = ZeroStats
    /\ log # <<>> =>
          /\ log[1].before = ZeroStats
          /\ stats = log[Len(log)].after
    /\ \A i \in DOMAIN log : i > 1 => log[i].before = log[i - 1].after
    /\ stats["leads_created"] = 0
    /\ stats["leads_updated"] = 0

\* The second run has returned statistics that show no creation, although the
\* first run created a card; what they show is the update of this run.
C16_Witness ==
    /\ run = 2
    /\ pc = "returned"
    /\ \E n \in DOMAIN made : made[n].run = 1
    /\ stats["tasks_created"] = 0
    /\ stats["tasks_updated"] = 1

\* ------------------------------------------------------------------ C17

\* The row at index j of the sheet is changed by this step in one field only,
\* which the last call of the step wrote, by an accepted write to this row.
OnlyFieldWritten(j, field, flow) ==
    /\ log' # <<>>
    /\ LET e == log'[Len(log')]
       IN  /\ e.kind = "item"
           /\ e.flow = flow
           /\ e.calls # <<>>
           /\ LET c == e.calls[Len(e.calls)]
              IN  /\ c.op = "update_lead_by_row"
                  /\ c.res = "ok"
                  /\ c.row = j + 1
                  /\ DOMAIN c.fields = {field}
                  /\ sheet'[j] = [sheet[j] EXCEPT ![field] = c.fields[field]]

\* C17: frame of store writes. A step of the engine that changes the sheet
\* changes one row, the one its write targets, and in that row only status
\* (a write of the reverse flow) or only trello_task_id (a write of the forward
\* flow); id, name, email and source of that row and all fields of all other
\* rows stay as they were.
C17_WriteFrame ==
    [][/\ Len(sheet') = Len(sheet)
       /\ \A j \in DOMAIN sheet :
             sheet'[j] # sheet[j] =>
                /\ \/ OnlyFieldWritten(j, "status", "B")
                   \/ OnlyFieldWritten(j, "trello_task_id", "A")
                /\ \A q \in DOMAIN sheet : q # j => sheet'[q] = sheet[q]]_vars

\* Both flows have written: the status of one row and the trello_task_id of
\* another row, which has a source, differ from what the run found.
C17_Witness ==
    \E j, q \in DOMAIN sheet :
       /\ j # q
       /\ sheet[j].status # start.sheet[j].status
       /\ sheet[q].trello_task_id # start.sheet[q].trello_task_id
       /\ sheet[q].source # <<>>
       /\ sheet[q].source = start.sheet[q].source

\* ------------------------------------------------------------------ C18

\* C18: the engine never deletes. No step removes a row from the sheet or
\* changes which lead a row holds, and no step removes a card from the board:
\* every card stays at its position and the board only grows.
C18_NeverDeletes ==
    [][/\ Len(sheet') = Len(sheet)
       /\ \A j \in DOMAIN sheet : sheet'[j].id = sheet[j].id
       /\ Len(board') >= Len(board)
       /\ \A k \in DOMAIN board : board'[k].id = board[k].id]_vars

\* A second run has added a card to a board that already held one.
C18_Witness ==
    /\ run = 2
    /\ start.board # <<>>
    /\ Len(board) > Len(start.board)
    /\ \A k \in DOMAIN start.board : board[k].id = start.board[k].id

\* ------------------------------------------------------------------ C19

\* C19: normalize_status is total with range new, contacted, qualified, lost.
\* For None, the empty string and every string it returns one of the four;
\* it returns new for None, for the empty string and for every string that,
\* lowered, stripped and with blanks and hyphens as underscores, is no key of
\* the table; and a key of the table in any such writing gets the value the
\* table gives it.
C19_NormalizeTotal ==
    n_pc \in {"once", "twice"} =>
       /\ n_once \in {<<"n", "e", "w">>, <<"c", "o", "n", "t", "a", "c", "t", "e", "d">>,
                      <<"q", "u", "a", "l", "i", "f", "i", "e", "d">>,
                      <<"l", "o", "s", "t">>}
       /\ (n_status = PyNone \/ n_status = <<>>) => n_once = <<"n", "e", "w">>
       /\ (n_status # PyNone /\ status_key(n_status) \notin StatusKeys) =>
             n_once = <<"n", "e", "w">>
       /\ \A i \in DOMAIN status_map :
             n_status \in {status_map[i][1], Upper(status_map[i][1]),
                           Underscore(status_map[i][1], "-"),
                           <<" ">> \o status_map[i][1] \o <<"\t", "\n">>} =>
                n_once = status_map[i][2]

\* normalize_status returned new for a string that is no key of the table.
C19_Witness ==
    /\ n_pc = "once"
    /\ n_status = <<"W", "e", "-">>
    /\ n_once = st_new

\* ------------------------------------------------------------------ C20

\* C20: normalize_status is idempotent: applied to its own result it returns
\* that result.
C20_NormalizeIdempotent ==
    n_pc = "twice" => n_twice = n_once

\* normalize_status applied to " in_progress\t\n" and then to its result gave
\* contacted both times.
C20_Witness ==
    /\ n_pc = "twice"
    /\ n_status = <<" ", "i", "n", "_", "p", "r", "o", "g", "r", "e", "s", "s", "\t", "\n">>
    /\ n_once = st_contacted
    /\ n_twice = st_contacted

\* ------------------------------------------------------------------ C21

\* The list the configuration names for status s.
ListOf(cfg, s) ==
    LET ids == TaskClient_list_ids(cfg)
    IN  ids[CHOOSE i \in DOMAIN ids : ids[i][1] = s][2]

\* C21: the list-to-status mapping is a bijection on the four lists. For every
\* configuration Config.validate accepted, the list configured for a canonical
\* status maps back to that status, and a list that is none of the four
\* configured ones maps to new.
C21_ListBijection ==
    c_pc = "looked_up" =>
       /\ \A s \in Canonical : c_list_id = ListOf(config, s) => c_status = s
       /\ (\A s \in Canonical : c_list_id # ListOf(config, s)) => c_status = st_new

\* The same for the configurations that name four different lists.
C21_DistinctLists ==
    (/\ c_pc = "looked_up"
     /\ \A s, t \in Canonical : s # t => ListOf(config, s) # ListOf(config, t)) =>
       /\ \A s \in Canonical : c_list_id = ListOf(config, s) => c_status = s
       /\ (\A s \in Canonical : c_list_id # ListOf(config, s)) => c_status = st_new

\* ------------------------------------------------------------------ C22

SomethingFailed ==
    \E i \in DOMAIN log :
       \/ log[i].raised
       \/ \E k \in DOMAIN log[i].calls : log[i].calls[k].res \in {"raise", "false"}

\* An exception reached a handler of the engine or main.
SomethingRaised == \E i \in DOMAIN log : log[i].raised

\* C23: the exit code reflects whether any error occurred. A run that is not a
\* dry run and was not interrupted exits 0 only when the sync ran to completion
\* and no fetch, record, task or write operation failed, and exits 1 when one
\* failed or the configuration was invalid.
C23_ExitCodeReflectsErrors ==
    (m_pc = "exited" /\ ~m_args.dry_run /\ m_exit # 130) =>
       /\ m_exit \in {0, 1}
       /\ m_exit = 0 => (m_report /\ ~SomethingFailed)
       /\ (SomethingFailed \/ validate(config) # "True") => m_exit = 1

\* The same for the failures that raise, leaving out the writes that
\* update_lead_by_row reports by returning False.
C23_ExitCodeReflectsRaised ==
    (m_pc = "exited" /\ ~m_args.dry_run /\ m_exit # 130) =>
       /\ m_exit \in {0, 1}
       /\ m_exit = 0 => (m_report /\ ~SomethingRaised)
       /\ (SomethingRaised \/ validate(config) # "True") => m_exit = 1

\* ------------------------------------------------------------------ C24

\* C24: the final report always prints. When main has constructed the engine,
\* started a sync in any direction and exited without being interrupted, the
\* report was printed, also when a record, a task or a whole flow failed.
C24_ReportAlwaysPrints ==
    (m_pc = "exited" /\ log # <<>> /\ m_exit # 130) => m_report

\* The same for --direction both, where run_sync is around the flows.
C24_ReportPrintsForBoth ==
    (m_pc = "exited" /\ log # <<>> /\ m_exit # 130 /\ m_args.direction = "both")
       => m_report

\* ------------------------------------------------------------------ C25

\* A call has been made to one of the stores.
StoreCalled == m_net > 0 \/ pc # "idle" \/ log # <<>>

\* A required value is not set or empty, or there is no credential file.
ConfigIncomplete ==
    \/ \E v \in DOMAIN config \ {"GOOGLE_CREDS_PATH"} : config[v] \in {NoneValue, ""}
    \/ config.GOOGLE_CREDS_PATH \notin ExistingFiles

\* C25: the configuration is validated before any network call. No call to a
\* store, the connection check of the engine's construction included, is made
\* before Config.validate() has returned, and a configuration with a missing
\* value or a missing credential file ends the process with exit code 1 and no
\* call made.
C25_ValidatedBeforeNetwork ==
    /\ StoreCalled => (m_pc # "start" /\ ~ConfigIncomplete)
    /\ ConfigIncomplete =>
          /\ ~StoreCalled
          /\ m_pc \in {"start", "exited"}
          /\ m_pc = "exited" => m_exit = 1

\* A live run whose credential file is missing has exited with code 1.
C25_Witness ==
    /\ config.GOOGLE_CREDS_PATH = "./missing.json"
    /\ ~m_args.dry_run
    /\ m_pc = "exited"
    /\ m_exit = 1
    /\ m_net = 0

\* ------------------------------------------------------------------ C26

\* C26: a user interrupt aborts the whole run. An interrupt that arrives during
\* a retry sleep or between two records is the last thing the run did: no
\* handler of the engine counted it as an error, no record or task was
\* processed after it, and the process has exited with code 130.
C26_InterruptAborts ==
    \A i \in DOMAIN log :
       log[i].kind = "interrupt" =>
          /\ i = Len(log)
          /\ log[i].after = log[i].before
          /\ stats = log[i].after
          /\ pc = "interrupted"
          /\ m_pc = "exited"
          /\ m_exit = 130

\* run_sync was interrupted in a retry sleep for the first of two leads, after
\* the first flow had run.
C26_Witness ==
    /\ m_pc = "exited"
    /\ m_exit = 130
    /\ m_args.direction = "both"
    /\ Len(leads) = 2
    /\ ai = 1
    /\ log # <<>>
    /\ log[Len(log)].kind = "interrupt"
    /\ log[Len(log)].branch = "sleep"
    /\ log[Len(log)].row = 2

\* ------------------------------------------------------------------ C27

\* s is empty once trimmed.
IsBlank(s) == \A i \in DOMAIN s : s[i] \in Whitespace

\* C27: three-way diff and partial update. For a lead with a name whose
\* trello_task_id was looked up and found on the board, the forward flow makes
\* no further call and changes no counter when title, body and status all
\* match; otherwise it makes exactly one update call, carrying exactly the
\* fields that differ with the record's values, and when that call returns the
\* card has those values and tasks_updated has risen by one.
C27_ThreeWayDiff ==
    [][LET lead == leads[ai]
           tid == Strip(lead.trello_task_id)
           on == {k \in DOMAIN board : board[k].id = tid}
           last == log'[Len(log')]
       IN  (/\ pc = "A_loop"
            /\ ~IsBlank(lead.name)
            /\ tid # <<>>
            /\ on # {}
            /\ \A k \in on : board[k].idList # NoKey
            /\ last.calls # <<>>
            /\ last.calls[1].res = "ok") =>
              LET card == board[CHOOSE k \in on : TRUE]
                  title == Strip(lead.name)
                  body == format_card_description(Strip(lead.email),
                                                  Strip(lead.source), Strip(lead.id))
                  status == normalize_status(lead.status)
                  D == (IF card.name # title THEN {"name"} ELSE {})
                          \cup (IF card.desc # body THEN {"description"} ELSE {})
                          \cup (IF card.idList # ListOf(ValidConfig, status)
                                THEN {"status"} ELSE {})
                  updated == [id |-> card.id,
                              name |-> IF "name" \in D THEN title ELSE card.name,
                              desc |-> IF "description" \in D THEN body ELSE card.desc,
                              idList |-> IF "status" \in D
                                         THEN ListOf(ValidConfig, status)
                                         ELSE card.idList]
              IN  /\ sheet' = sheet
                  /\ made' = made
                  /\ last.calls[1].op = "get_card"
                  /\ IF D = {}
                     THEN /\ Len(last.calls) = 1
                          /\ stats' = stats
                          /\ board' = board
                     ELSE /\ Len(last.calls) = 2
                          /\ last.calls[2].op = "update_task"
                          /\ last.calls[2].card = tid
                          /\ DOMAIN last.calls[2].fields = D
                          /\ "name" \in D => last.calls[2].fields["name"] = title
                          /\ "description" \in D =>
                                last.calls[2].fields["description"] = body
                          /\ "status" \in D => last.calls[2].fields["status"] = status
                          /\ IF last.calls[2].res = "ok"
                             THEN /\ stats' = [stats EXCEPT !.tasks_updated = @ + 1]
                                  /\ board' = [k \in DOMAIN board |->
                                                 IF k \in on THEN updated ELSE board[k]]
                             ELSE /\ stats'.tasks_updated = stats.tasks_updated
                                  /\ board' = board]_vars

\* A card whose title and list differed from its lead, and whose body did not,
\* has been updated with those two fields.
C27_Witness ==
    \E i \in DOMAIN log :
       /\ log[i].kind = "item"
       /\ log[i].branch = "update"
       /\ log[i].calls[2].res = "ok"
       /\ DOMAIN log[i].calls[2].fields = {"name", "status"}
       /\ log[i].after.tasks_updated = 1
       /\ \E k \in DOMAIN board :
             board[k].name = <<"C", "y">> /\ board[k].idList = "TRELLO_LIST_DONE_ID"

\* ------------------------------------------------------------------ C28

\* C28: creation outcome. For a lead with a name and an empty trello_task_id
\* the forward flow makes one creation call. When it returns, the new card is
\* on the board in the list of the lead's normalized status and its ID is
\* written to the trello_task_id of the lead's row, which holds it once the
\* store has accepted the write, with tasks_created raised by one. When the
\* creation fails, both stores are as before, no write is made, tasks_created
\* is unchanged and errors has risen by one.
C28_CreationOutcome ==
    [][LET lead == leads[ai]
           last == log'[Len(log')]
       IN  (/\ pc = "A_loop"
            /\ ~IsBlank(lead.name)
            /\ Strip(lead.trello_task_id) = <<>>) =>
              /\ last.calls # <<>>
              /\ last.calls[1].op = "create_task_for_lead"
              /\ IF last.calls[1].res = "ok"
                 THEN LET new == board'[Len(board')]
                      IN  /\ Len(board') = Len(board) + 1
                          /\ SubSeq(board', 1, Len(board)) = board
                          /\ new.id = last.calls[1].card
                          /\ \A k \in DOMAIN board : board[k].id # new.id
                          /\ new.idList =
                                ListOf(ValidConfig, normalize_status(lead.status))
                          /\ Len(last.calls) = 2
                          /\ last.calls[2].op = "update_lead_by_row"
                          /\ last.calls[2].row = lead.row_number
                          /\ last.calls[2].fields = [trello_task_id |-> new.id]
                          /\ last.calls[2].res = "ok" =>
                                /\ sheet' = [sheet EXCEPT
                                               ![lead.row_number - 1].trello_task_id =
                                                  new.id]
                                /\ stats' = [stats EXCEPT !.tasks_created = @ + 1]
                 ELSE /\ board' = board
                      /\ sheet' = sheet
                      /\ Len(last.calls) = 1
                      /\ stats' = [stats EXCEPT !.errors = @ + 1]]_vars

\* A lead with status "in progress" got a card in the list of contacted, and
\* its row holds the card's ID.
C28_Witness ==
    \E i \in DOMAIN log :
       /\ log[i].kind = "item"
       /\ log[i].branch = "create"
       /\ Len(log[i].calls) = 2
       /\ log[i].calls[2].res = "ok"
       /\ sheet[log[i].row - 1].trello_task_id = log[i].calls[1].card
       /\ log[i].after.tasks_created = 1
       /\ \E k \in DOMAIN board :
             /\ board[k].id = log[i].calls[1].card
             /\ board[k].idList = "TRELLO_LIST_IN_PROGRESS_ID"

\* ------------------------------------------------------------------ C29

\* The card of an update call is one the forward flow created for the same row.
MadeFor(card_id, row) ==
    \E n \in DOMAIN made : CardId(n) = card_id /\ made[n].row = row

\* C29: the diff recomputes title and body the same way as creation. An update
\* of a card the forward flow created for the lead, neither of which anyone
\* else has changed, carries neither the title nor the body, whatever white
\* space the lead's fields have around them.
C29_DiffMatchesCreation ==
    \A i \in DOMAIN log :
       \A k \in DOMAIN log[i].calls :
          (/\ log[i].calls[k].op = "update_task"
           /\ MadeFor(log[i].calls[k].card, log[i].row)) =>
             DOMAIN log[i].calls[k].fields \cap {"name", "description"} = {}

\* The same for the leads whose name, email, source and ID have no white space
\* around them.
C29_DiffMatchesCreationUnpadded ==
    \A i \in DOMAIN log :
       \A k \in DOMAIN log[i].calls :
          (/\ log[i].calls[k].op = "update_task"
           /\ MadeFor(log[i].calls[k].card, log[i].row)
           /\ \A f \in {"name", "email", "source", "id"} :
                 Strip(sheet[log[i].row - 1][f]) = sheet[log[i].row - 1][f]) =>
             DOMAIN log[i].calls[k].fields \cap {"name", "description"} = {}

\* ------------------------------------------------------------------ C30

\* C30: blank rows are skipped. For a lead whose name is empty once trimmed,
\* with or without a trello_task_id, the forward flow calls neither the board
\* nor the sheet, leaves both as they are, and raises skipped by one and no
\* other counter.
C30_BlankRowsSkipped ==
    [][(pc = "A_loop" /\ IsBlank(leads[ai].name)) =>
          /\ board' = board
          /\ sheet' = sheet
          /\ made' = made
          /\ log'[Len(log')].calls = <<>>
          /\ stats' = [stats EXCEPT !.skipped = @ + 1]]_vars

\* A row with a blank name and the ID of a card on the board has been skipped.
C30_Witness ==
    \E i \in DOMAIN log :
       /\ log[i].kind = "item"
       /\ log[i].branch = "skip"
       /\ sheet[log[i].row - 1] = BlankLinked
       /\ \E k \in DOMAIN board : board[k].id = BlankLinked.trello_task_id
       /\ stats = [ZeroStats EXCEPT !.skipped = 1]

\* ------------------------------------------------------------------ C31

C32_StatusRoundTrip ==
    /\ \A c \in Canonical : normalize_status(Upper(c)) = c
    /\ \A i \in ItemsOf("B") :
          \A k \in DOMAIN log[i].calls :
             log[i].calls[k].res = "ok" =>
                LET stored == sheet[log[i].calls[k].row - 1].status
                    card_status ==
                        get_status_from_list_id(get_card(board, log[i].card).idList)
                IN  /\ stored = Upper(card_status)
                    /\ stored # card_status
                    /\ normalize_status(stored) = card_status

\* The reverse flow wrote QUALIFIED into a row whose status was lost, for a
\* card of the list of qualified.
C32_Witness ==
    \E i \in ItemsOf("B") :
       /\ Len(log[i].calls) = 1
       /\ log[i].calls[1].res = "ok"
       /\ get_card(board, log[i].card).idList = "TRELLO_LIST_DONE_ID"
       /\ start.sheet[log[i].calls[1].row - 1].status = <<"l", "o", "s", "t">>
       /\ sheet[log[i].calls[1].row - 1].status =
             <<"Q", "U", "A", "L", "I", "F", "I", "E", "D">>

\* ------------------------------------------------------------------ C33

\* No two rows of the sheet carry the same non-empty trello_task_id.
NoSharedRef ==
    \A i, j \in DOMAIN sheet :
       (i # j /\ Strip(sheet[i].trello_task_id) # <<>>) =>
          Strip(sheet[i].trello_task_id) # Strip(sheet[j].trello_task_id)

\* run_sync has returned without an error.
ReturnedClean == pc = "idle" /\ run >= 1 /\ stats.errors = 0

\* What the reverse flow, and after it the forward flow, do on the stores as
\* they are when no call fails: no card gets a write to the sheet, and no lead
\* gets a creation, an update or a write to the sheet; and no counter of
\* creations, updates or status writes is raised. (A flow that writes nothing
\* leaves to the next item, and to the next flow, the stores it found.)
NextRunIsQuiet ==
    LET leads_now == read_leads(sheet)
        map == BuildLeadMap(leads_now)
        b(k) == process_task_to_lead(board[k], map, sheet, ZeroStats, AllOk)
        a(j) == process_lead_to_task(leads_now[j], board, sheet, ZeroStats,
                                     CardId(Len(made) + 1), AllOk)
    IN  /\ \A k \in DOMAIN board :
              /\ b(k).calls = <<>>
              /\ b(k).stats.status_synced_to_sheets = 0
        /\ \A j \in DOMAIN sheet :
              /\ \A n \in DOMAIN a(j).calls : a(j).calls[n].op = "get_card"
              /\ a(j).stats.tasks_created = 0
              /\ a(j).stats.tasks_updated = 0

\* No call of the run just made was swallowed by update_lead_by_row, and no
\* name in the sheet has white space around it.
NothingSwallowedOrPadded ==
    /\ \A i \in DOMAIN log :
          \A k \in DOMAIN log[i].calls : log[i].calls[k].res # "false"
    /\ \A j \in DOMAIN sheet : Strip(sheet[j].name) = sheet[j].name

\* C33: quiescence. After a run_sync that returned with errors = 0 on a sheet
\* in which no two rows share a trello_task_id (four different lists are
\* configured and nobody else changes the stores), the run_sync that follows
\* creates no card, updates no card, writes no row and leaves tasks_created,
\* tasks_updated and status_synced_to_sheets at 0.
C33_Quiescence ==
    (ReturnedClean /\ NoSharedRef) => NextRunIsQuiet

\* C33 for runs in which update_lead_by_row swallowed nothing and on sheets
\* whose names have no white space around them.
C33_QuiescenceWithoutSwallowedWrites ==
    (ReturnedClean /\ NoSharedRef /\ NothingSwallowedOrPadded) => NextRunIsQuiet

\* ------------------------------------------------------------------ C34

\* Every row with a name carries the ID of a card that is on the board, in the
\* list of the row's status and with the row's name (as it is or stripped) as
\* its title.
Consistent ==
    \A j \in DOMAIN sheet :
       Strip(sheet[j].name) # <<>> =>
          LET task_ref == Strip(sheet[j].trello_task_id)
              card == get_card(board, task_ref)
          IN  /\ task_ref # <<>>
              /\ card # NoneCard
              /\ get_status_from_list_id(card.idList) = normalize_status(sheet[j].status)
              /\ card.name \in {sheet[j].name, Strip(sheet[j].name)}

\* C34: post-run consistency. When run_sync has returned with errors = 0 and
\* no two rows share a trello_task_id, every row with a name carries the ID of
\* a card on the board whose status is the row's normalized status and whose
\* title is the row's name.
C34_PostRunConsistency ==
    (pc = "idle" /\ run >= 1 /\ stats.errors = 0 /\ NoSharedRef) => Consistent

\* C34 for runs in which update_lead_by_row swallowed no failure.
C34_ConsistencyWithoutSwallowedWrites ==
    (/\ pc = "idle" /\ run >= 1 /\ stats.errors = 0 /\ NoSharedRef
     /\ \A i \in DOMAIN log :
           \A k \in DOMAIN log[i].calls : log[i].calls[k].res # "false") =>
       Consistent

\* ------------------------------------------------------------------ C35

\* The rows whose status is not the one they had when the run began.
StatusChanged == {j \in DOMAIN sheet : sheet[j].status # start.sheet[j].status}

\* The rows whose trello_task_id is the ID of a card created in this run.
LinkedInThisRun ==
    {j \in DOMAIN sheet :
        \E n \in DOMAIN made :
           made[n].run = run /\ Strip(sheet[j].trello_task_id) = CardId(n)}

\* The statistics agree with what the run changed in the sheet.
Accurate ==
    /\ stats.status_synced_to_sheets = Cardinality(StatusChanged)
    /\ stats.tasks_created = Cardinality(LinkedInThisRun)

\* C35: the statistics are accurate. At the end of every run,
\* status_synced_to_sheets is the number of rows whose status the run changed
\* and tasks_created is the number of rows whose trello_task_id holds the ID of
\* a card created in the run, whichever writes to the sheet failed.
C35_StatisticsAccurate ==
    (pc \in {"returned", "idle"} /\ run >= 1) => Accurate

\* C35 for runs in which every write to the sheet was accepted.
C35_AccurateWithoutFailedWrites ==
    (/\ pc \in {"returned", "idle"} /\ run >= 1
     /\ \A i \in DOMAIN log :
           \A k \in DOMAIN log[i].calls : log[i].calls[k].res # "false") =>
       Accurate

\* ------------------------------------------------------------------ C36

\* The counters the forward flow raises for a lead.
ForwardCounters == {"tasks_created", "tasks_updated", "skipped", "errors"}

\* C36: at most one effect per item per flow. In one run each lead is
\* processed at most once by the forward flow, which makes for it at most one
\* call that writes to the board (a creation or an update, never both) and at
\* most one write to the sheet, of trello_task_id only, and raises at most one
\* of tasks_created, tasks_updated, skipped and errors, by one, and no other
\* counter; each card is processed at most once by the reverse flow, which
\* makes for it at most one write to the sheet, of status only.
C36_OneEffectPerItem ==
    LET itemsA == ItemsOf("A")
        itemsB == ItemsOf("B")
    IN  /\ \A i \in itemsA :
              LET e == log[i]
                  raised == {c \in DOMAIN e.after : e.after[c] # e.before[c]}
              IN  /\ \A j \in itemsA : log[j].row = e.row => j = i
                  /\ Cardinality(CallsOf(e, "create_task_for_lead")
                                   \cup CallsOf(e, "update_task")) <= 1
                  /\ Cardinality(CallsOf(e, "update_lead_by_row")) <= 1
                  /\ \A k \in CallsOf(e, "update_lead_by_row") :
                        DOMAIN e.calls[k].fields = {"trello_task_id"}
                  /\ raised \subseteq ForwardCounters
                  /\ Cardinality(raised) <= 1
                  /\ \A c \in raised : e.after[c] = e.before[c] + 1
        /\ \A i \in itemsB :
              LET e == log[i]
              IN  /\ \A j \in itemsB : log[j].card = e.card => j = i
                  /\ Len(e.calls) <= 1
                  /\ \A k \in DOMAIN e.calls :
                        /\ e.calls[k].op = "update_lead_by_row"
                        /\ DOMAIN e.calls[k].fields = {"status"}

\* In one run the reverse flow wrote the status of a card's row, and the
\* forward flow created a card for a lead and wrote its ID, raising
\* tasks_created from 0 to 1.
C36_Witness ==
    /\ \E i \in ItemsOf("B") : Len(log[i].calls) = 1
    /\ \E i \in ItemsOf("A") :
          /\ Len(log[i].calls) = 2
          /\ log[i].calls[1].op = "create_task_for_lead"
          /\ log[i].calls[2].op = "update_lead_by_row"
          /\ log[i].calls[2].res = "ok"
          /\ log[i].before.tasks_created = 0
          /\ log[i].after.tasks_created = 1

\* ------------------------------------------------------------------ C38

\* C38: the reverse flow aborts inside run_sync. When the fetch of the cards
\* or of the leads of the reverse flow raised, the forward flow is not run: it
\* reads no lead, no card is created or updated, both stores are as they were,
\* and run_sync returns with errors = 1 and every other counter 0. When the
\* board returned no card, the reverse flow returns without reading the sheet
\* and the forward flow is run next.
C38_ReverseAbortSkipsForward ==
    m_args.direction = "both" =>
       /\ (\E i \in DOMAIN log : log[i].kind = "escape" /\ log[i].flow = "B") =>
             /\ \A i \in DOMAIN log : log[i].flow = "B" /\ log[i].calls = <<>>
             /\ leads = <<>>
             /\ made = <<>>
             /\ sheet = start.sheet
             /\ board = start.board
             /\ stats = [ZeroStats EXCEPT !.errors = 1]
             /\ pc \in {"returned", "idle"}
       /\ (/\ log # <<>>
           /\ log[1].kind = "fetch"
           /\ ~log[1].raised
           /\ start.board = <<>>) =>
             /\ log[1].flow = "B"
             /\ \A i \in 2..Len(log) : log[i].flow = "A"
             /\ lead_map = NoMap
             /\ Len(log) = 1 => pc = "A_leads"

\* run_sync has returned after the fetch of the leads of the reverse flow
\* failed, on a sheet with a lead that has no card yet.
C38_Witness ==
    /\ m_args.direction = "both"
    /\ m_pc = "report"
    /\ \E i \in DOMAIN log :
          log[i].kind = "escape" /\ log[i].flow = "B" /\ log[i].branch = "leads"
    /\ \E j \in DOMAIN sheet :
          Strip(sheet[j].name) # <<>> /\ sheet[j].trello_task_id = <<>>
    /\ stats.errors = 1

\* ------------------------------------------------------------------ C39

\* C39: direction selection. With --direction tasks-to-leads only the reverse
\* flow is run and the board is not written (no creation, no update); with
\* --direction leads-to-tasks only the forward flow is run and no status of a
\* row is written; with --direction both the reverse flow comes first and the
\* forward flow after it.
C39_DirectionSelection ==
    /\ m_args.direction = "tasks-to-leads" =>
          /\ \A i \in DOMAIN log :
                /\ log[i].flow = "B"
                /\ \A k \in DOMAIN log[i].calls :
                      log[i].calls[k].op = "update_lead_by_row"
          /\ pc \notin {"A_leads", "A_loop"}
          /\ board = start.board
          /\ made = <<>>
    /\ m_args.direction = "leads-to-tasks" =>
          /\ \A i \in DOMAIN log :
                /\ log[i].flow = "A"
                /\ \A k \in DOMAIN log[i].calls :
                      "status" \notin DOMAIN log[i].calls[k].fields
                         \/ log[i].calls[k].op \in {"create_task_for_lead", "update_task"}
          /\ pc \notin {"B_cards", "B_leads", "B_loop"}
          /\ \A j \in DOMAIN sheet : sheet[j].status = start.sheet[j].status
    /\ m_args.direction = "both" =>
          /\ log # <<>> => log[1].flow = "B"
          /\ \A i, j \in DOMAIN log :
                (i < j /\ log[i].flow = "A") => log[j].flow = "A"
          /\ pc \in {"A_leads", "A_loop"} =>
                \E i \in DOMAIN log : log[i].flow = "B" /\ log[i].kind = "fetch"

\* main --direction tasks-to-leads has exited after the reverse flow wrote the
\* status of a card into a row, on a sheet with a lead that has no card.
C39_Witness ==
    /\ m_args.direction = "tasks-to-leads"
    /\ m_pc = "exited"
    /\ m_exit = 0
    /\ \E i \in ItemsOf("B") :
          /\ Len(log[i].calls) = 1
          /\ log[i].calls[1].res = "ok"
    /\ \E j \in DOMAIN sheet :
          Strip(sheet[j].name) # <<>> /\ sheet[j].trello_task_id = <<>>

\* ------------------------------------------------------------------ C37

\* The decorated operations gone through by the calls recorded in the log, a
\* fetch being one.
WrappedCallsInLog ==
    LET fetches == {i \in DOMAIN log : log[i].kind = "fetch"}
        calls == {<<i, k>> \in (DOMAIN log) \X (1..3) : k \in DOMAIN log[i].calls}
        two == {c \in calls : Len(wrapped_in[log[c[1]].calls[c[2]].op]) = 2}
    IN  Cardinality(fetches) + Cardinality(calls) + Cardinality(two)

\* No decorated operation is called from the body of a decorated operation.
NeverNested ==
    \A f \in DOMAIN called_from :
       decorated[f] =>
          \A g \in called_from[f] : g \notin DOMAIN decorated \/ ~decorated[g]

\* The transport invocations of a run are bounded by the numbers of cards and
\* leads: three fetches, at most two decorated operations for a card and four
\* for a lead, each invoked at most four times.
InvocationsBounded ==
    /\ \A n \in InvocationsPerCall : n <= 4
    /\ NeverNested
    /\ WrappedCallsInLog <= 3 + 2 * Len(start.board) + 4 * Len(start.sheet)

\* C37: termination. Whatever calls fail, a run_sync that has been entered
\* returns; each call of a decorated operation invokes its body at most
\* max_retries + 1 = 4 times, no decorated operation is called inside another,
\* and the decorated operations a run goes through are at most three fetches,
\* two for each card and four for each lead.
C37_Termination ==
    /\ []InvocationsBounded
    /\ (pc \notin {"idle", "returned"}) ~> (pc = "returned")

\* run_sync has returned after a run over a card and two leads in which two
\* calls failed.
C37_Witness ==
    /\ pc = "returned"
    /\ faults = 2
    /\ Len(start.board) = 1
    /\ Len(start.sheet) = 2
    /\ ItemsOf("B") # {}
    /\ Cardinality(ItemsOf("A")) = 2

====
